---- MODULE Spec2Model ----
(***************************************************************************)
(* Model of the text-comparison page component (src/unnamed/part_002):     *)
(* the comparison run that turns the engine's hunks into ChangeOperation   *)
(* entries and highlight annotations, the bidirectional view synchronizer  *)
(* and the next/previous navigation over the change list.                  *)
(*                                                                         *)
(* The PDF engine (load, compareDocuments, create, setViewState, the DOM   *)
(* scroll containers) is outside the repository.  It is modelled by what   *)
(* the calling code relies on:                                             *)
(*   - instance.create resolves with the created annotation, which has a   *)
(*     fresh identifier;                                                   *)
(*   - instance.setViewState replaces the whole (immutable) view state and *)
(*     calls the viewState.*.change listeners of that instance before it   *)
(*     returns; it may throw, and then changes nothing;                    *)
(*   - a page navigation scrolls the view's container to the top of the    *)
(*     page, and the engine derives the current page from the scroll       *)
(*     position when a scroll event is dispatched;                         *)
(*   - a change of scrollTop/scrollLeft queues one scroll event for that   *)
(*     container, dispatched later (never inside the running handler).     *)
(***************************************************************************)
EXTENDS Integers, Sequences, FiniteSets, TLC

VARIABLES
    \* ---- comparison run (compareDocuments) ----
    pc,                 \* position of the run: "start", "loop", "walk", "done"
    totalPageCount,     \* originalInstance.totalPageCount
    pageIndex,          \* loop variable of the page loop
    changes,            \* per-page Map<string, ChangeOperation>, insertion ordered
    hunk,               \* hunk.operations of the hunk being walked (unfiltered)
    operations,         \* hunk.operations without the equal operations
    i,                  \* cursor of the while loop (0-based, as in the code)
    budget,             \* operations the engine may still return
    annotations,        \* annotations held by each view instance
    nextId,             \* next annotation identifier the engine hands out
    operationsRef,      \* operationsRef.current
    operationsMap,      \* React state rendered by the sidebar
    annotationToChangeIndexRef,
    instances,          \* per container: view instances mounted in it
    invocations,        \* compareDocuments calls waiting for a load, in call order
    \* ---- view synchronizer ----
    view,               \* per view: currentPageIndex, zoom, scrollTop, scrollLeft
    isScrollLocked,     \* React state
    isScrollLockedRef,
    isSyncingRef,
    scrollFrame,        \* per view: changedScrollFrame / originalScrollFrame is set
    rafQueue,           \* frame callbacks requested and not yet run, in order
    scrollEvent,        \* per view: a scroll event is queued for its container
    obs,                \* what the last handler did (passes started, events ignored)
    \* ---- selection ----
    selectedChangeIndex,
    selectionAnnotationIdsRef,
    selections,         \* selections in flight: handlers waiting at an await
    \* ---- sidebar display ----
    text,               \* the text last passed to countWords
    wordCount,          \* what countWords returned for it
    \* ---- engine calls of the comparison runs ----
    runs,               \* per compareDocuments invocation: the await it is at
    calls,              \* the engine calls that are outstanding
    instanceRef,        \* originalInstanceRef / changedInstanceRef .current
    \* ---- the offset computed by scrollToPage ----
    pageHeights,        \* pageInfoForIndex(i).height of the instance's pages
    instanceZoom,       \* instance.viewState.zoom: a number or a zoom mode
    scrollCall          \* the call of scrollToPage: its locals and its requests

loadVars == <<instances, invocations>>
runVars == <<pc, totalPageCount, pageIndex, changes, hunk, operations, i, budget,
             operationsRef, operationsMap, annotationToChangeIndexRef, loadVars>>
annVars == <<annotations, nextId>>
syncVars == <<view, isScrollLocked, isScrollLockedRef, isSyncingRef, scrollFrame,
              rafQueue, scrollEvent, obs>>
selVars == <<selectedChangeIndex, selectionAnnotationIdsRef, selections>>
displayVars == <<text, wordCount>>
callVars == <<runs, calls, instanceRef>>
offsetVars == <<pageHeights, instanceZoom, scrollCall>>
vars == <<runVars, annVars, syncVars, selVars, displayVars, callVars, offsetVars>>

Views == {"original", "changed"}

Other(v) == IF v = "original" THEN "changed" ELSE "original"

(***************************************************************************)
(* Bounds of the model.                                                    *)
(***************************************************************************)
MaxPages == 2
MaxTotalOps == 4

(***************************************************************************)
(* Insertion-ordered Map<string, V>: a sequence of [key, value] records.   *)
(* Map.set on an existing key keeps the key's position.                    *)
(***************************************************************************)
MapKeys(m) == {m[k].key : k \in 1..Len(m)}

MapHas(m, key) == key \in MapKeys(m)

MapIndex(m, key) == CHOOSE k \in 1..Len(m) : m[k].key = key

MapGet(m, key) == m[MapIndex(m, key)].value

MapSet(m, key, value) ==
    IF MapHas(m, key)
    THEN [m EXCEPT ![MapIndex(m, key)] = [key |-> key, value |-> value]]
    ELSE Append(m, [key |-> key, value |-> value])

\* mutant of MapSetAll: an entry whose key exists is moved to the end
RECURSIVE MapSetAllMovesToEnd(_, _)
MapSetAllMovesToEnd(m, entries) ==
    IF entries = <<>> THEN m
    ELSE MapSetAllMovesToEnd(
             Append(SelectSeq(m, LAMBDA e : e.key # Head(entries).key),
                    Head(entries)),
             Tail(entries))

\* new Map([...m, ...entries]): a key that exists keeps its position and gets
\* the new value, a new key is appended
RECURSIVE MapSetAll(_, _)
MapSetAll(m, entries) ==
    IF entries = <<>> THEN m
    ELSE MapSetAll(MapSet(m, Head(entries).key, Head(entries).value), Tail(entries))

\* Object spread {...existing, ...fields}: fields win, the others are kept.
Spread(existing, fields) ==
    [f \in (DOMAIN existing) \cup (DOMAIN fields) |->
        IF f \in DOMAIN fields THEN fields[f] ELSE existing[f]]

(***************************************************************************)
(* Operations the engine returns.  rect is the rectangle of the first text *)
(* block the code reads for that operation type: originalTextBlocks[0] for *)
(* a delete, changedTextBlocks[0] for an insert (left, top, width, height).*)
(***************************************************************************)
deleteHighlightColor == [r |-> 255, g |-> 201, b |-> 203]
insertHighlightColor == [r |-> 192, g |-> 216, b |-> 239]

\* The engine's coordinates are floating-point numbers.  A number is held in
\* tenths: 305 is 30.5, 100 is 10.
DeleteRects == {<<100, 200, 500, 120>>, <<305, 400, 500, 120>>}
InsertRects == {<<100, 200, 600, 120>>, <<305, 400, 600, 120>>}

OpSet ==
    {[type |-> "equal", text |-> "same", rect |-> <<100, 200, 500, 120>>]}
    \cup {[type |-> "delete", text |-> "old text", rect |-> r] : r \in DeleteRects}
    \cup {[type |-> "insert", text |-> "new words", rect |-> r] : r \in InsertRects}

Hunks(n) == UNION {[1..k -> OpSet] : k \in 1..n}

\* `${x}` for a number x: its shortest decimal form
NumberToString(x) ==
    IF x % 10 = 0 THEN ToString(x \div 10)
    ELSE ToString(x \div 10) \o "." \o ToString(x % 10)

\* Math.round(x)
Round(x) == ((x + 5) \div 10) * 10

\* a key built from the rounded origin of the rectangle
CoordinateRounded(rect) ==
    NumberToString(Round(rect[1])) \o "," \o NumberToString(Round(rect[2]))

\* `${rect[0]},${rect[1]}`
Coordinate(rect) == NumberToString(rect[1]) \o "," \o NumberToString(rect[2])

\* new NutrientViewer.Geometry.Rect({left, top, width, height})
GeometryRect(rect) ==
    [left |-> rect[1], top |-> rect[2], width |-> rect[3], height |-> rect[4]]

\* new HighlightAnnotation({pageIndex, rects: List([rect]), color}) as created
HighlightAnnotation(id, page, rect, color) ==
    [id |-> id, kind |-> "highlight", pageIndex |-> page, rects |-> <<rect>>,
     color |-> color]

\* mutant of FilterOperations: the filter tests a tag no operation carries
FilterOperationsWrongTag(ops) == SelectSeq(ops, LAMBDA op : op.type # "equals")

\* hunk.operations.filter(op => op.type !== "equal")
FilterOperations(ops) == SelectSeq(ops, LAMBDA op : op.type # "equal")

\* mutant of IsReplacement: the bounds test is off by one
IsReplacementOffByOne(ops, c) ==
    /\ ops[c + 1].type = "delete"
    /\ c + 2 < Len(ops)
    /\ ops[c + 2].type = "insert"

\* the test of the while loop for a replacement, at 0-based cursor c
IsReplacement(ops, c) ==
    /\ ops[c + 1].type = "delete"
    /\ c + 1 < Len(ops)
    /\ ops[c + 2].type = "insert"

(***************************************************************************)
(* The comparison run.                                                     *)
(***************************************************************************)
AnnotationIdsOf(entry) ==
    IF "annotationIds" \in DOMAIN entry THEN entry.annotationIds ELSE <<>>

\* mutant of DeleteEntry: the existing entry is not spread into the new one
DeleteEntryOverwrite(chg, op, page, annotationId) ==
    MapSet(chg, Coordinate(op.rect),
           [deleteText |-> op.text, del |-> TRUE, pageIndex |-> page,
            originalRect |-> GeometryRect(op.rect),
            annotationIds |-> <<annotationId>>])

\* handleAnnotationClick up to the call of handleChangeClick: the index of the
\* change a click on annotationId selects, -1 when it selects none
ClickTarget(lookup, ref, annotationId) ==
    IF MapHas(lookup, annotationId) /\ Len(ref) > 0
    THEN LET changeIndex == MapGet(lookup, annotationId)
             changesArray == ref
         IN  IF changeIndex < Len(changesArray) THEN changeIndex ELSE -1
    ELSE -1

\* processOperation, case "delete": the entry written for a standalone delete
DeleteEntry(chg, op, page, annotationId) ==
    LET coordinate == Coordinate(op.rect)
        fields == [deleteText |-> op.text, del |-> TRUE, pageIndex |-> page,
                   originalRect |-> GeometryRect(op.rect)]
    IN  IF MapHas(chg, coordinate)
        THEN LET existing == MapGet(chg, coordinate)
             IN  MapSet(chg, coordinate,
                        Spread(existing,
                               Spread(fields,
                                      [annotationIds |->
                                          AnnotationIdsOf(existing) \o <<annotationId>>])))
        ELSE MapSet(chg, coordinate,
                    Spread(fields, [annotationIds |-> <<annotationId>>]))

\* mutant of InsertEntry: the key is built from the rounded origin
InsertEntryRoundedKey(chg, op, page, annotationId) ==
    MapSet(chg, CoordinateRounded(op.rect),
           [insertText |-> op.text, insert |-> TRUE, pageIndex |-> page,
            changedRect |-> GeometryRect(op.rect),
            annotationIds |-> <<annotationId>>])

\* processOperation, case "insert": the entry written for a standalone insert
InsertEntry(chg, op, page, annotationId) ==
    LET coordinate == Coordinate(op.rect)
        fields == [insertText |-> op.text, insert |-> TRUE, pageIndex |-> page,
                   changedRect |-> GeometryRect(op.rect)]
    IN  IF MapHas(chg, coordinate)
        THEN LET existing == MapGet(chg, coordinate)
             IN  MapSet(chg, coordinate,
                        Spread(existing,
                               Spread(fields,
                                      [annotationIds |->
                                          AnnotationIdsOf(existing) \o <<annotationId>>])))
        ELSE MapSet(chg, coordinate,
                    Spread(fields, [annotationIds |-> <<annotationId>>]))

\* mutant of ReplacementEntry: the key is taken from the insert rectangle
ReplacementEntryInsertKey(chg, deleteOp, insertOp, page, deleteAnnotationId, insertAnnotationId) ==
    MapSet(chg, Coordinate(insertOp.rect),
           [deleteText |-> deleteOp.text,
            insertText |-> insertOp.text,
            del |-> TRUE,
            insert |-> TRUE,
            pageIndex |-> page,
            originalRect |-> GeometryRect(deleteOp.rect),
            changedRect |-> GeometryRect(insertOp.rect),
            annotationIds |-> <<deleteAnnotationId, insertAnnotationId>>])

\* the replacement branch: changes.set(coordinate, {...}) keyed by the delete
ReplacementEntry(chg, deleteOp, insertOp, page, deleteAnnotationId, insertAnnotationId) ==
    MapSet(chg, Coordinate(deleteOp.rect),
           [deleteText |-> deleteOp.text,
            insertText |-> insertOp.text,
            del |-> TRUE,
            insert |-> TRUE,
            pageIndex |-> page,
            originalRect |-> GeometryRect(deleteOp.rect),
            changedRect |-> GeometryRect(insertOp.rect),
            annotationIds |-> <<deleteAnnotationId, insertAnnotationId>>])

\* instance.create(annotation) on the instance of view v
Create(anns, v, annotation) == [anns EXCEPT ![v] = @ \cup {annotation}]

\* useEffect: compareDocuments starts; both instances are loaded
LoadInstances ==
    /\ pc = "start"
    /\ pc' = "loop"
    /\ instances' = [v \in Views |-> 1]
    /\ UNCHANGED <<totalPageCount, pageIndex, changes, hunk, operations, i, budget,
                   operationsRef, operationsMap, annotationToChangeIndexRef,
                   invocations>>
    /\ UNCHANGED <<annVars, syncVars, selVars, displayVars, callVars, offsetVars>>

\* mutant of ComparePage: a result without documentComparisonResults ends
\* the run
ComparePageStopsAtMalformed ==
    /\ pc = "loop"
    /\ pageIndex < totalPageCount
    /\ \E hasResults \in BOOLEAN :
          IF hasResults
          THEN /\ pc' = "walk"
               /\ UNCHANGED <<pageIndex, operationsRef>>
          ELSE /\ pc' = "loop"
               /\ pageIndex' = totalPageCount
               /\ operationsRef' = MapSetAll(operationsRef, <<>>)
    /\ changes' = <<>>
    /\ hunk' = <<>>
    /\ operations' = <<>>
    /\ i' = 0
    /\ UNCHANGED <<totalPageCount, budget, operationsMap, annotationToChangeIndexRef>>
    /\ UNCHANGED <<loadVars, annVars, syncVars, selVars, displayVars, callVars, offsetVars>>

\* one iteration of the page loop up to the result check: the comparison of
\* page pageIndex returns; a result without documentComparisonResults is skipped
ComparePage ==
    /\ pc = "loop"
    /\ pageIndex < totalPageCount
    /\ \E hasResults \in BOOLEAN :
          IF hasResults
          THEN /\ pc' = "walk"
               /\ UNCHANGED <<pageIndex, operationsRef>>
          ELSE /\ pc' = "loop"
               /\ pageIndex' = pageIndex + 1
               /\ operationsRef' = MapSetAll(operationsRef, <<>>)
    /\ changes' = <<>>
    /\ hunk' = <<>>
    /\ operations' = <<>>
    /\ i' = 0
    /\ UNCHANGED <<totalPageCount, budget, operationsMap, annotationToChangeIndexRef>>
    /\ UNCHANGED <<loadVars, annVars, syncVars, selVars, displayVars, callVars, offsetVars>>

\* for (const hunk of result.hunks): the next hunk of the page is taken
TakeHunk ==
    /\ pc = "walk"
    /\ i >= Len(operations)
    /\ budget > 0
    /\ \E h \in Hunks(budget) :
          /\ hunk' = h
          /\ operations' = FilterOperations(h)
          /\ budget' = budget - Len(h)
    /\ i' = 0
    /\ UNCHANGED <<pc, totalPageCount, pageIndex, changes, operationsRef,
                   operationsMap, annotationToChangeIndexRef>>
    /\ UNCHANGED <<loadVars, annVars, syncVars, selVars, displayVars, callVars, offsetVars>>

\* while loop, replacement branch: two highlights, one entry, cursor + 2
ProcessReplacement ==
    /\ pc = "walk"
    /\ i < Len(operations)
    /\ IsReplacement(operations, i)
    /\ LET deleteOp == operations[i + 1]
           insertOp == operations[i + 2]
           deleteAnnotationId == nextId
           insertAnnotationId == nextId + 1
           a1 == Create(annotations, "original",
                        HighlightAnnotation(deleteAnnotationId, pageIndex,
                                            GeometryRect(deleteOp.rect),
                                            deleteHighlightColor))
       IN  /\ annotations' = Create(a1, "changed",
                                    HighlightAnnotation(insertAnnotationId, pageIndex,
                                                        GeometryRect(insertOp.rect),
                                                        insertHighlightColor))
           /\ nextId' = nextId + 2
           /\ changes' = ReplacementEntry(changes, deleteOp, insertOp, pageIndex,
                                          deleteAnnotationId, insertAnnotationId)
    /\ i' = i + 2
    /\ UNCHANGED <<pc, totalPageCount, pageIndex, hunk, operations, budget,
                   operationsRef, operationsMap, annotationToChangeIndexRef>>
    /\ UNCHANGED <<loadVars, syncVars, selVars, displayVars, callVars, offsetVars>>

\* while loop, else branch: await processOperation(currentOp); i++
ProcessStandalone ==
    /\ pc = "walk"
    /\ i < Len(operations)
    /\ ~IsReplacement(operations, i)
    /\ LET currentOp == operations[i + 1]
       IN  CASE currentOp.type = "delete" ->
                  /\ annotations' = Create(annotations, "original",
                                           HighlightAnnotation(nextId, pageIndex,
                                                               GeometryRect(currentOp.rect),
                                                               deleteHighlightColor))
                  /\ nextId' = nextId + 1
                  /\ changes' = DeleteEntry(changes, currentOp, pageIndex, nextId)
             [] currentOp.type = "insert" ->
                  /\ annotations' = Create(annotations, "changed",
                                           HighlightAnnotation(nextId, pageIndex,
                                                               GeometryRect(currentOp.rect),
                                                               insertHighlightColor))
                  /\ nextId' = nextId + 1
                  /\ changes' = InsertEntry(changes, currentOp, pageIndex, nextId)
             [] OTHER -> UNCHANGED <<annotations, nextId, changes>>
    /\ i' = i + 1
    /\ UNCHANGED <<pc, totalPageCount, pageIndex, hunk, operations, budget,
                   operationsRef, operationsMap, annotationToChangeIndexRef>>
    /\ UNCHANGED <<loadVars, syncVars, selVars, displayVars, callVars, offsetVars>>

\* end of the page's hunks: operationsRef.current = new Map([...ref, ...changes])
EndPage ==
    /\ pc = "walk"
    /\ i >= Len(operations)
    /\ operationsRef' = MapSetAll(operationsRef, changes)
    /\ pageIndex' = pageIndex + 1
    /\ pc' = "loop"
    /\ UNCHANGED <<totalPageCount, changes, hunk, operations, i, budget,
                   operationsMap, annotationToChangeIndexRef>>
    /\ UNCHANGED <<loadVars, annVars, syncVars, selVars, displayVars, callVars, offsetVars>>

\* mutant of AnnotationMap: positions are counted from 1
RECURSIVE AnnotationMapFromOne(_, _)
AnnotationMapFromOne(m, index) ==
    IF index >= Len(m) THEN <<>>
    ELSE LET ids == AnnotationIdsOf(m[index + 1].value)
         IN  [k \in 1..Len(ids) |-> [key |-> ids[k], value |-> index + 1]]
             \o AnnotationMapFromOne(m, index + 1)

\* annotationMap: every annotation id of the entry at position index -> index
RECURSIVE AnnotationMap(_, _)
AnnotationMap(m, index) ==
    IF index >= Len(m) THEN <<>>
    ELSE LET ids == AnnotationIdsOf(m[index + 1].value)
         IN  [k \in 1..Len(ids) |-> [key |-> ids[k], value |-> index]]
             \o AnnotationMap(m, index + 1)

\* mutant of PublishResults: the results are also published after a rejection
PublishResultsAfterFailure ==
    /\ \/ pc = "loop" /\ pageIndex >= totalPageCount
       \/ pc = "failed"
    /\ operationsMap' = operationsRef
    /\ annotationToChangeIndexRef' = MapSetAll(<<>>, AnnotationMap(operationsRef, 0))
    /\ pc' = "done"
    /\ UNCHANGED <<totalPageCount, pageIndex, changes, hunk, operations, i, budget,
                   operationsRef>>
    /\ UNCHANGED <<loadVars, annVars, syncVars, selVars, displayVars, callVars, offsetVars>>

\* after the page loop: updateOperationsMap and the annotation lookup
PublishResults ==
    /\ pc = "loop"
    /\ pageIndex >= totalPageCount
    /\ operationsMap' = operationsRef
    /\ annotationToChangeIndexRef' = MapSetAll(<<>>, AnnotationMap(operationsRef, 0))
    /\ pc' = "done"
    /\ UNCHANGED <<totalPageCount, pageIndex, changes, hunk, operations, i, budget,
                   operationsRef>>
    /\ UNCHANGED <<loadVars, annVars, syncVars, selVars, displayVars, callVars, offsetVars>>

(***************************************************************************)
(* The view synchronizer.  A handler runs to completion: the state it      *)
(* works on is threaded through the operators below as a record st with    *)
(* the views, the two refs it reads, the queued scroll events and a record *)
(* of what the handler did.                                                *)
(***************************************************************************)
ZoomLevels == {1, 2}
ScrollLefts == {0, 7}
Failures == {"none", "zoom", "page"}

\* scroll offsets of the container: each page has its top and one offset below it
ViewPages == {0, 1}
OffsetsInPage == {0, 1}
PageHeight == Cardinality(OffsetsInPage)
ScrollTops == 0..(Cardinality(ViewPages) * PageHeight - 1)

\* the page the engine shows for a scroll offset, and the offset of its top
PageOfScrollTop(top) == top \div PageHeight
PageTop(page) == page * PageHeight

\* what the handler that ran last did: the sync passes it started, whether a
\* sync call returned at the guard, whether a pass threw, and whether the
\* scroll listener found a frame callback already requested, the
\* navigation request it served, and the fields of a view it wrote, in order
NoHandler ==
    [passes |-> 0, ignored |-> FALSE, threw |-> FALSE, coalesced |-> FALSE,
     request |-> "none", writes |-> <<>>]

\* the handler's record of a write to a field of view v
Written(v, field) == [view |-> v, field |-> field]

HandlerState ==
    [view |-> view, locked |-> isScrollLockedRef, syncing |-> isSyncingRef,
     scrollEvent |-> scrollEvent, obs |-> NoHandler]

RECURSIVE Sync(_, _, _)

\* viewState.currentPageIndex.change / viewState.zoom.change listeners of view v
DispatchViewStateChange(st, v, pageChanged, zoomChanged) ==
    LET s1 == IF pageChanged THEN Sync(st, v, "none") ELSE st
    IN  IF zoomChanged THEN Sync(s1, v, "none") ELSE s1

\* instance.setViewState(viewState) of view v: the whole view state is replaced,
\* a page change scrolls the container to the top of the page, and the change
\* listeners run before the call returns
SetViewState(st, v, page, zoom) ==
    LET old == st.view[v]
        pageChanged == page # old.currentPageIndex
        zoomChanged == zoom # old.zoom
        top == IF pageChanged THEN PageTop(page) ELSE old.scrollTop
        s1 == [st EXCEPT !.view[v].currentPageIndex = page,
                         !.view[v].zoom = zoom,
                         !.view[v].scrollTop = top,
                         !.scrollEvent[v] = @ \/ (top # old.scrollTop),
                         !.obs.writes =
                             @ \o (IF zoomChanged THEN <<Written(v, "zoom")>>
                                   ELSE <<>>)
                               \o (IF pageChanged
                                   THEN <<Written(v, "currentPageIndex")>>
                                   ELSE <<>>)]
    IN  DispatchViewStateChange(s1, v, pageChanged, zoomChanged)

\* mutant of SetScroll: an assignment of the offsets the container already
\* has raises a scroll event too
SetScrollAlwaysRaisesEvent(st, v, top, left) ==
    [st EXCEPT !.view[v].scrollTop = top,
               !.view[v].scrollLeft = left,
               !.scrollEvent[v] = TRUE,
               !.obs.writes = @ \o <<Written(v, "scrollTop"),
                                      Written(v, "scrollLeft")>>]

\* targetScroll.scrollTop = ...; targetScroll.scrollLeft = ...
SetScroll(st, v, top, left) ==
    [st EXCEPT !.view[v].scrollTop = top,
               !.view[v].scrollLeft = left,
               !.scrollEvent[v] = @ \/ (top # st.view[v].scrollTop)
                                    \/ (left # st.view[v].scrollLeft),
               !.obs.writes = @ \o <<Written(v, "scrollTop"),
                                      Written(v, "scrollLeft")>>]

\* mutant of SyncBody: on the same page only the zoom is copied
SyncBodyWithoutScrollCopy(st, src, fail) ==
    LET tgt == Other(src)
        sourceViewState == st.view[src]
        targetViewState == st.view[tgt]
    IN  IF targetViewState.zoom # sourceViewState.zoom
        THEN SetViewState(st, tgt, targetViewState.currentPageIndex,
                          sourceViewState.zoom)
        ELSE st

\* the try block of syncChangedToOriginal (src = "changed") and of
\* syncOriginalToChanged (src = "original"); fail names the setViewState call
\* that throws, if any
SyncBody(st, src, fail) ==
    LET tgt == Other(src)
        sourceViewState == st.view[src]
        targetViewState == st.view[tgt]
        sourcePage == sourceViewState.currentPageIndex
        targetPage == targetViewState.currentPageIndex
        zoomDiffers == targetViewState.zoom # sourceViewState.zoom
        s1 == IF zoomDiffers
              THEN SetViewState(st, tgt, targetViewState.currentPageIndex,
                                sourceViewState.zoom)
              ELSE st
    IN  IF zoomDiffers /\ fail = "zoom"
        THEN [st EXCEPT !.obs.threw = TRUE]
        ELSE IF targetPage # sourcePage
             THEN IF fail = "page"
                  THEN [s1 EXCEPT !.obs.threw = TRUE]
                  ELSE SetViewState(s1, tgt, sourcePage, targetViewState.zoom)
             ELSE SetScroll(s1, tgt, s1.view[src].scrollTop, s1.view[src].scrollLeft)

\* mutant of Sync: the guard does not test isSyncingRef
SyncNoReentrancyGuard(st, src, fail) ==
    IF ~st.locked
    THEN [st EXCEPT !.obs.ignored = TRUE]
    ELSE LET s0 == [st EXCEPT !.syncing = TRUE, !.obs.passes = @ + 1]
         IN  [SyncBody(s0, src, fail) EXCEPT !.syncing = FALSE]

\* syncChangedToOriginal / syncOriginalToChanged: guard, try, finally
Sync(st, src, fail) ==
    IF ~st.locked \/ st.syncing
    THEN [st EXCEPT !.obs.ignored = TRUE]
    ELSE LET s0 == [st EXCEPT !.syncing = TRUE, !.obs.passes = @ + 1]
         IN  [SyncBody(s0, src, fail) EXCEPT !.syncing = FALSE]

\* the handler's result written back to the state
CommitState(st) ==
    /\ view' = st.view
    /\ isSyncingRef' = st.syncing
    /\ scrollEvent' = st.scrollEvent

Commit(st) ==
    /\ CommitState(st)
    /\ obs' = st.obs

\* toggleScrollLock
ToggleScrollLock ==
    /\ isScrollLocked' = ~isScrollLocked
    /\ isScrollLockedRef' = ~isScrollLocked
    /\ obs' = NoHandler
    /\ UNCHANGED <<view, isSyncingRef, scrollFrame, rafQueue, scrollEvent>>
    /\ UNCHANGED <<runVars, annVars, selVars, displayVars, callVars, offsetVars>>

\* the user scrolls the container of view v one offset up or down, or sideways
\* (no listener runs yet)
UserScroll(v) ==
    /\ \E top \in ScrollTops, left \in ScrollLefts :
          /\ \/ top \in {view[v].scrollTop - 1, view[v].scrollTop + 1}
                /\ left = view[v].scrollLeft
             \/ top = view[v].scrollTop /\ left # view[v].scrollLeft
          /\ view' = [view EXCEPT ![v].scrollTop = top, ![v].scrollLeft = left]
    /\ scrollEvent' = [scrollEvent EXCEPT ![v] = TRUE]
    /\ obs' = NoHandler
    /\ UNCHANGED <<isScrollLocked, isScrollLockedRef, isSyncingRef, scrollFrame, rafQueue>>
    /\ UNCHANGED <<runVars, annVars, selVars, displayVars, callVars, offsetVars>>

\* the user picks a zoom level in the toolbar of view v
UserZoom(v) ==
    /\ \E zoom \in ZoomLevels \ {view[v].zoom}, fail \in Failures :
          Commit(LET s1 == [HandlerState EXCEPT !.view[v].zoom = zoom]
                 IN  Sync(s1, v, fail))
    /\ UNCHANGED <<isScrollLocked, isScrollLockedRef, scrollFrame, rafQueue>>
    /\ UNCHANGED <<runVars, annVars, selVars, displayVars, callVars, offsetVars>>

\* the user picks a page in the pager of view v
UserPage(v) ==
    /\ \E page \in ViewPages \ {view[v].currentPageIndex}, fail \in Failures :
          Commit(LET s0 == HandlerState
                     s1 == [s0 EXCEPT !.view[v].currentPageIndex = page,
                                      !.view[v].scrollTop = PageTop(page),
                                      !.scrollEvent[v] =
                                          @ \/ (PageTop(page) # view[v].scrollTop)]
                 IN  Sync(s1, v, fail))
    /\ UNCHANGED <<isScrollLocked, isScrollLockedRef, scrollFrame, rafQueue>>
    /\ UNCHANGED <<runVars, annVars, selVars, displayVars, callVars, offsetVars>>

\* mutant of ScrollListener: a callback is requested for every scroll event
ScrollListenerAlwaysRequests(v) ==
    /\ scrollFrame' = [scrollFrame EXCEPT ![v] = TRUE]
    /\ rafQueue' = Append(rafQueue, v)

\* the "scroll" listener of view v's container: request one frame callback
\* unless one is already requested
ScrollListener(v) ==
    IF scrollFrame[v]
    THEN UNCHANGED <<scrollFrame, rafQueue>>
    ELSE /\ scrollFrame' = [scrollFrame EXCEPT ![v] = TRUE]
         /\ rafQueue' = Append(rafQueue, v)

\* the queued scroll event of view v's container is dispatched: the engine
\* derives the current page (its change listeners run), and the scroll listener
\* registered by compareDocuments runs
DispatchScroll(v) ==
    /\ scrollEvent[v]
    /\ \E fail \in Failures :
          LET s0 == [HandlerState EXCEPT !.scrollEvent[v] = FALSE]
              page == PageOfScrollTop(view[v].scrollTop)
              st == IF page # view[v].currentPageIndex
                    THEN Sync([s0 EXCEPT !.view[v].currentPageIndex = page], v, fail)
                    ELSE s0
          IN  /\ CommitState(st)
              /\ obs' = [st.obs EXCEPT !.coalesced = scrollFrame[v]]
    /\ ScrollListener(v)
    /\ UNCHANGED <<isScrollLocked, isScrollLockedRef>>
    /\ UNCHANGED <<runVars, annVars, selVars, displayVars, callVars, offsetVars>>

\* the frame callback requested first runs: sync, then clear the frame variable
\* (the assignment is skipped when the sync throws)
RunFrame ==
    /\ rafQueue # <<>>
    /\ LET v == Head(rafQueue)
       IN  \E fail \in Failures :
              LET st == Sync(HandlerState, v, fail)
              IN  /\ Commit(st)
                  /\ scrollFrame' = IF st.obs.threw THEN scrollFrame
                                    ELSE [scrollFrame EXCEPT ![v] = FALSE]
    /\ rafQueue' = Tail(rafQueue)
    /\ UNCHANGED <<isScrollLocked, isScrollLockedRef>>
    /\ UNCHANGED <<runVars, annVars, selVars, displayVars, callVars, offsetVars>>

(***************************************************************************)
(* State after construction (the useState / useRef initial values).        *)
(***************************************************************************)
ViewAtRest == [currentPageIndex |-> 0, zoom |-> 1, scrollTop |-> 0, scrollLeft |-> 0]

RunInit ==
    /\ pc = "start"
    /\ totalPageCount \in 1..MaxPages
    /\ pageIndex = 0
    /\ changes = <<>>
    /\ hunk = <<>>
    /\ operations = <<>>
    /\ i = 0
    /\ budget = MaxTotalOps
    /\ operationsRef = <<>>
    /\ operationsMap = <<>>
    /\ annotationToChangeIndexRef = <<>>

\* containers before the first load; both containers once a run has loaded
LoadInit ==
    /\ instances = [v \in Views |-> 0]
    /\ invocations = <<>>

Loaded ==
    /\ instances = [v \in Views |-> 1]
    /\ invocations = <<>>

AnnInit ==
    /\ annotations = [v \in Views |-> {}]
    /\ nextId = 1

SyncInit ==
    /\ view = [v \in Views |-> ViewAtRest]
    /\ isScrollLocked = TRUE
    /\ isScrollLockedRef = TRUE
    /\ isSyncingRef = FALSE
    /\ scrollFrame = [v \in Views |-> FALSE]
    /\ rafQueue = <<>>
    /\ scrollEvent = [v \in Views |-> FALSE]
    /\ obs = NoHandler

\* nothing has been rendered yet
Undefined == <<"undefined">>

DisplayInit ==
    /\ text = Undefined
    /\ wordCount = 0

\* no invocation yet: the instance refs are null (0)
CallInit ==
    /\ runs = <<>>
    /\ calls = {}
    /\ instanceRef = 0

\* scrollToPage is not running and has requested nothing
NoScrollCall ==
    [running |-> FALSE, targetPageIndex |-> 0, offsetTop |-> 0, i |-> 0,
     cumulativeHeight |-> 0, zooms |-> <<>>, top |-> -1, currentPageIndex |-> -1]

OffsetInit ==
    /\ pageHeights = <<>>
    /\ instanceZoom = <<"number", 1>>
    /\ scrollCall = NoScrollCall

SelInit ==
    /\ selectedChangeIndex = 0
    /\ selectionAnnotationIdsRef = <<>>
    /\ selections = <<>>

(***************************************************************************)
(* SpecRun: one comparison run over the pages of the document pair.        *)
(***************************************************************************)
InitRun == RunInit /\ LoadInit /\ AnnInit /\ SyncInit /\ SelInit /\ DisplayInit /\ CallInit /\ OffsetInit

NextRun ==
    \/ LoadInstances
    \/ ComparePage
    \/ TakeHunk
    \/ ProcessReplacement
    \/ ProcessStandalone
    \/ EndPage
    \/ PublishResults

SpecRun == InitRun /\ [][NextRun]_vars

(***************************************************************************)
(* Properties of the comparison run (checked under SpecRun).               *)
(***************************************************************************)
HasFlag(entry, flag) == (flag \in DOMAIN entry) /\ entry[flag] = TRUE

\* the cursor is on a delete that is immediately followed by an insert
AtDeleteInsertPair ==
    /\ pc = "walk"
    /\ i + 2 <= Len(operations)
    /\ operations[i + 1].type = "delete"
    /\ operations[i + 2].type = "insert"

\* the cursor is on an operation of the given type that is not half of a pair
AtStandalone(type) ==
    /\ pc = "walk"
    /\ i + 1 <= Len(operations)
    /\ operations[i + 1].type = type
    /\ type = "delete" => (i + 2 > Len(operations) \/ operations[i + 2].type # "insert")

\* the cursor is on an operation neither of whose neighbours has the other type
AtIsolated(type, otherType) ==
    /\ pc = "walk"
    /\ i + 1 <= Len(operations)
    /\ operations[i + 1].type = type
    /\ i + 2 <= Len(operations) => operations[i + 2].type # otherType
    /\ i >= 1 => operations[i].type # otherType

AllAnnotations == annotations["original"] \cup annotations["changed"]

SeqRange(seq) == {seq[k] : k \in 1..Len(seq)}

\* C1: a delete immediately followed by an insert is written as exactly one entry
\* with del and insert both true, the cursor advances by 2, and the insert of a
\* pair is never the operation under the cursor.
C1_ReplacementMergedOnce ==
    /\ [][AtDeleteInsertPair =>
            LET key == Coordinate(operations[i + 1].rect)
            IN  /\ i' = i + 2
                /\ MapKeys(changes') = MapKeys(changes) \cup {key}
                /\ Len(changes') <= Len(changes) + 1
                /\ HasFlag(MapGet(changes', key), "del")
                /\ HasFlag(MapGet(changes', key), "insert")]_vars
    /\ [](pc = "walk" /\ i >= 1 /\ i < Len(operations)
            /\ operations[i + 1].type = "insert"
          => operations[i].type # "delete")

\* C1 witness: a pair at the end of a hunk has been processed as one entry
C1_Witness ==
    /\ pc = "walk"
    /\ i = Len(operations)
    /\ i >= 2
    /\ operations[i].type = "insert"
    /\ operations[i - 1].type = "delete"
    /\ Len(changes) = 1
    /\ HasFlag(changes[1].value, "del")
    /\ HasFlag(changes[1].value, "insert")

\* C2 (as claimed): whenever a step of the walk writes at a key that already has
\* an entry, every field and every annotation identifier of the existing entry
\* is still in the resulting entry.
C2_MergeNonDestructive ==
    [][(pc = "walk" /\ pc' = "walk" /\ i' > i) =>
          \A key \in MapKeys(changes) :
              /\ MapHas(changes', key)
              /\ DOMAIN MapGet(changes, key) \subseteq DOMAIN MapGet(changes', key)
              /\ SeqRange(AnnotationIdsOf(MapGet(changes, key)))
                    \subseteq SeqRange(AnnotationIdsOf(MapGet(changes', key)))]_vars

\* C6: no equal operation is ever under the cursor, and every step that creates
\* an annotation or writes an entry is a step over a delete or an insert.
C6_EqualProducesNothing ==
    /\ [](\A k \in 1..Len(operations) : operations[k].type # "equal")
    /\ [][(AllAnnotations' # AllAnnotations \/ (changes' # changes /\ changes' # <<>>))
            => /\ pc = "walk"
               /\ i < Len(operations)
               /\ operations[i + 1].type \in {"delete", "insert"}
               /\ Cardinality(AllAnnotations') - Cardinality(AllAnnotations) = i' - i]_vars

\* C6 witness: a hunk with an equal operation between two changes was walked
C6_Witness ==
    /\ pc = "walk"
    /\ Len(hunk) = 3
    /\ hunk[2].type = "equal"
    /\ Len(operations) = 2
    /\ i = 2
    /\ Cardinality(AllAnnotations) = 2

\* C7 (as claimed): a delete with no insert next to it, or an insert with no
\* delete next to it, leaves an entry in which only its own flag is true.
C7_OnlyOwnFlag ==
    [][/\ AtIsolated("delete", "insert") =>
            LET e == MapGet(changes', Coordinate(operations[i + 1].rect))
            IN  HasFlag(e, "del") /\ ~HasFlag(e, "insert")
       /\ AtIsolated("insert", "delete") =>
            LET e == MapGet(changes', Coordinate(operations[i + 1].rect))
            IN  HasFlag(e, "insert") /\ ~HasFlag(e, "del")]_vars

\* what a standalone operation with flag own does to the page's change map
StandaloneEffect(own, other) ==
    LET key == Coordinate(operations[i + 1].rect)
        e == MapGet(changes', key)
    IN  /\ i' = i + 1
        /\ MapHas(changes', key)
        /\ HasFlag(e, own)
        /\ IF MapHas(changes, key)
           THEN /\ Len(changes') = Len(changes)
                /\ HasFlag(e, other) <=> HasFlag(MapGet(changes, key), other)
           ELSE /\ Len(changes') = Len(changes) + 1
                /\ ~HasFlag(e, other)
        /\ \A k \in MapKeys(changes) \ {key} :
              MapHas(changes', k) /\ MapGet(changes', k) = MapGet(changes, k)

\* C7 (amended): a standalone delete or insert adds exactly one entry with only
\* its own flag when its key has no entry yet; when the key has an entry it adds
\* none and merges into it, setting its own flag and keeping the other flag.
C7_StandaloneOneEntry ==
    [][/\ AtStandalone("delete") => StandaloneEffect("del", "insert")
       /\ AtStandalone("insert") => StandaloneEffect("insert", "del")]_vars

\* C7 witness: a hunk of one delete gave one entry with only del
C7_Witness ==
    /\ pc = "walk"
    /\ Len(operations) = 1
    /\ i = 1
    /\ operations[1].type = "delete"
    /\ Len(changes) = 1
    /\ HasFlag(changes[1].value, "del")
    /\ ~HasFlag(changes[1].value, "insert")

\* C8: a replacement creates one highlight in the original view in the delete
\* colour and one in the changed view in the insert colour, and writes the entry
\* keyed "x,y" of the delete rectangle with both texts, both rectangles and the
\* two annotation identifiers.
C8_ReplacementAnnotationsAndEntry ==
    [][AtDeleteInsertPair =>
          LET d == operations[i + 1]
              n == operations[i + 2]
              key == NumberToString(d.rect[1]) \o "," \o NumberToString(d.rect[2])
              e == MapGet(changes', key)
          IN  /\ MapHas(changes', key)
              /\ \E a \in annotations'["original"], b \in annotations'["changed"] :
                    /\ a \notin AllAnnotations
                    /\ b \notin AllAnnotations
                    /\ annotations'["original"] = annotations["original"] \cup {a}
                    /\ annotations'["changed"] = annotations["changed"] \cup {b}
                    /\ a.kind = "highlight" /\ b.kind = "highlight"
                    /\ a.color = [r |-> 255, g |-> 201, b |-> 203]
                    /\ b.color = [r |-> 192, g |-> 216, b |-> 239]
                    /\ a.pageIndex = pageIndex /\ b.pageIndex = pageIndex
                    /\ a.rects = <<e.originalRect>>
                    /\ b.rects = <<e.changedRect>>
                    /\ e.annotationIds = <<a.id, b.id>>
                    /\ a.id # b.id
              /\ e.deleteText = d.text
              /\ e.insertText = n.text
              /\ e.del = TRUE /\ e.insert = TRUE
              /\ e.originalRect = [left |-> d.rect[1], top |-> d.rect[2],
                                   width |-> d.rect[3], height |-> d.rect[4]]
              /\ e.changedRect = [left |-> n.rect[1], top |-> n.rect[2],
                                  width |-> n.rect[3], height |-> n.rect[4]]]_vars

\* C8 witness: delete("old text", [10,20,50,12]) then insert("new words",
\* [10,20,60,12]) on page 0 gave the entry keyed "10,20" (numbers in tenths)
C8_Witness ==
    /\ pageIndex = 0
    /\ pc = "walk"
    /\ i = 2
    /\ Len(changes) = 1
    /\ changes[1].key = "10,20"
    /\ changes[1].value.deleteText = "old text"
    /\ changes[1].value.insertText = "new words"
    /\ changes[1].value.originalRect = [left |-> 100, top |-> 200, width |-> 500, height |-> 120]
    /\ changes[1].value.changedRect = [left |-> 100, top |-> 200, width |-> 600, height |-> 120]
    /\ Len(changes[1].value.annotationIds) = 2
    /\ Cardinality(annotations["original"]) = 1
    /\ Cardinality(annotations["changed"]) = 1

\* C13: after a run has completed, a click on any annotation identifier that
\* the entry at position k of the change list records selects the change at
\* position k.
C13_LookupMatchesPositions ==
    (pc = "done") =>
        \A k \in 1..Len(operationsRef) :
            \A annotationId \in SeqRange(AnnotationIdsOf(operationsRef[k].value)) :
                ClickTarget(annotationToChangeIndexRef, operationsRef, annotationId)
                    = k - 1

\* a completed run whose second change is a merged entry with several
\* identifiers
C13_Witness ==
    /\ pc = "done"
    /\ Len(operationsRef) = 2
    /\ Len(AnnotationIdsOf(operationsRef[2].value)) >= 2
    /\ Len(annotationToChangeIndexRef) >= 3

\* the entries written so far: those of the page at hand and the merged ones
WrittenEntries == SeqRange(changes) \cup SeqRange(operationsRef)

\* the origin an entry's key is expected to be built from
KeyOrigin(entry) ==
    IF HasFlag(entry, "del")
    THEN <<entry.originalRect.left, entry.originalRect.top>>
    ELSE <<entry.changedRect.left, entry.changedRect.top>>

\* C16 as stated: every entry's key is the string built from the rounded (x,y)
\* origin of the delete rectangle when the entry has a delete, of the insert
\* rectangle when it has only an insert.
C16_KeyFromRoundedOrigin ==
    \A e \in WrittenEntries : e.key = CoordinateRounded(KeyOrigin(e.value))

\* C16 amended: every entry's key is the string "x,y" of the origin as the
\* engine reports it, without rounding: of the delete rectangle when the entry
\* has a delete, of the insert rectangle when it has only an insert.
C16_KeyFromOrigin ==
    \A e \in WrittenEntries : e.key = Coordinate(KeyOrigin(e.value))

\* C16 witness: a published list with an entry that has a delete at a
\* fractional origin (30.5, 40) and an entry that has only an insert
C16_Witness ==
    /\ pc = "done"
    /\ \E e \in SeqRange(operationsRef) :
          /\ HasFlag(e.value, "del")
          /\ e.value.originalRect.left = 305
          /\ e.key = "30.5,40"
    /\ \E e \in SeqRange(operationsRef) :
          /\ ~HasFlag(e.value, "del")
          /\ HasFlag(e.value, "insert")

\* C18: when the comparison of a page returns and its results are not walked
\* (the result is absent or has no documentComparisonResults), the page adds
\* no entry and no annotation, nothing fails, and the loop goes on with the
\* next page.
C18_MalformedResultSkipsPage ==
    [][(pc = "loop" /\ pageIndex < totalPageCount /\ pc' # "walk") =>
          /\ operationsRef' = operationsRef
          /\ annotations' = annotations
          /\ nextId' = nextId
          /\ changes' = <<>>
          /\ pc' = "loop"
          /\ pageIndex' = pageIndex + 1]_vars

\* C18 witness: page 0 gave an entry, page 1 contributed nothing and the loop
\* has moved past it
C18_Witness ==
    /\ pc = "loop"
    /\ pageIndex = 2
    /\ changes = <<>>
    /\ hunk = <<>>
    /\ Len(operationsRef) = 1
    /\ operationsRef[1].value.pageIndex = 0
    /\ Cardinality(AllAnnotations) = 1

\* C23: the merge of a page's changes keeps one entry per key: an entry whose
\* key the page wrote is replaced as a whole by the page's entry and keeps its
\* position, the other entries are untouched, the page's new keys are added,
\* and the number of entries is the number of distinct keys.
C23_OneEntryPerKey ==
    [][EndPage =>
          /\ MapKeys(operationsRef') = MapKeys(operationsRef) \cup MapKeys(changes)
          /\ Len(operationsRef') = Cardinality(MapKeys(operationsRef'))
          /\ \A k \in 1..Len(operationsRef) :
                /\ operationsRef'[k].key = operationsRef[k].key
                /\ operationsRef'[k].value =
                      IF MapHas(changes, operationsRef[k].key)
                      THEN MapGet(changes, operationsRef[k].key)
                      ELSE operationsRef[k].value]_vars

\* C23 witness: pages 0 and 1 each wrote a change at the same key; the list has
\* one entry, the one of page 1, with the one annotation of page 1
C23_Witness ==
    /\ pc = "loop"
    /\ pageIndex = 2
    /\ Len(operationsRef) = 1
    /\ operationsRef[1].value.pageIndex = 1
    /\ Len(operationsRef[1].value.annotationIds) = 1
    /\ Cardinality(AllAnnotations) = 2
    /\ \E a \in AllAnnotations : a.pageIndex = 0

(***************************************************************************)
(* SpecSync: the two loaded views, the user acting on them, the lock.      *)
(***************************************************************************)
\* C32: the page indices of the entries of the change list are non-decreasing
\* in insertion order, in operationsRef.current at any time and in the
\* published list, so the sidebar's order by page is the order of next and
\* previous.
C32_PagesAscendInInsertionOrder ==
    /\ \A k \in 1..(Len(operationsRef) - 1) :
          operationsRef[k].value.pageIndex <= operationsRef[k + 1].value.pageIndex
    /\ \A k \in 1..(Len(operationsMap) - 1) :
          operationsMap[k].value.pageIndex <= operationsMap[k + 1].value.pageIndex

\* C29: when the run has completed, every highlight annotation it created
\* is a key of the annotation lookup.
C29_CreatedHighlightsClickable ==
    pc = "done" =>
        \A a \in AllAnnotations : MapHas(annotationToChangeIndexRef, a.id)

InitSync ==
    /\ RunInit /\ totalPageCount = Cardinality(ViewPages)
    /\ Loaded /\ AnnInit /\ SyncInit /\ SelInit /\ DisplayInit /\ CallInit /\ OffsetInit

NextSync ==
    \/ ToggleScrollLock
    \/ \E v \in Views : UserScroll(v)
    \/ \E v \in Views : UserZoom(v)
    \/ \E v \in Views : UserPage(v)
    \/ \E v \in Views : DispatchScroll(v)
    \/ RunFrame

SpecSync == InitSync /\ [][NextSync]_vars

(***************************************************************************)
(* Properties of the synchronizer (checked under SpecSync).                *)
(***************************************************************************)
Quiescent == rafQueue = <<>> /\ \A v \in Views : ~scrollEvent[v]

ViewsEqual == view["original"] = view["changed"]

Pending(queue, v) == {k \in DOMAIN queue : queue[k] = v}

\* C3: a handler starts at most one sync pass (a view-state change event raised
\* by the pass's own writes starts no pass back), and the syncing guard is
\* false again whenever a handler has returned, also when the pass threw.
C3_SyncNeverRecurses ==
    /\ obs.passes <= 1
    /\ isSyncingRef = FALSE

\* a pass wrote the counterpart's zoom, the change event it raised came back
\* to the guard and was ignored, and the page write that followed threw
C3_Witness ==
    /\ obs.passes = 1
    /\ obs.ignored
    /\ obs.threw
    /\ isScrollLockedRef

\* C10: at most one frame callback is pending per direction, and a direction
\* with a pending callback has its frame variable set.
C10_OnePendingCallbackPerDirection ==
    \A v \in Views :
        /\ Cardinality(Pending(rafQueue, v)) <= 1
        /\ (Pending(rafQueue, v) # {}) => scrollFrame[v]

\* a scroll event of the changed view was handled while its callback was
\* still pending, and only that one callback is queued
C10_Witness ==
    /\ obs.coalesced
    /\ rafQueue = <<"changed">>
    /\ ~scrollFrame["original"]

\* an event of view v is handled (or, for a scroll, raised by the user)
EventOf(v) ==
    \/ UserScroll(v)
    \/ UserZoom(v)
    \/ UserPage(v)
    \/ DispatchScroll(v)
    \/ (rafQueue # <<>> /\ Head(rafQueue) = v /\ RunFrame)

\* with the lock off no event of a view writes the counterpart view
LockOffNoCounterpartWrite ==
    \A v \in Views :
        (~isScrollLockedRef /\ EventOf(v)) =>
            /\ view'[Other(v)] = view[Other(v)]
            /\ obs'.passes = 0

\* with the lock on every event of a view is synchronized: a page or zoom
\* change starts a pass, a scroll event leaves a frame callback pending for
\* its direction, and a frame callback starts a pass
LockOnEventSynchronized ==
    \A v \in Views :
        /\ (isScrollLockedRef /\ (UserZoom(v) \/ UserPage(v))) => obs'.passes = 1
        /\ (isScrollLockedRef /\ DispatchScroll(v)) => Pending(rafQueue', v) # {}
        /\ (isScrollLockedRef /\ rafQueue # <<>> /\ Head(rafQueue) = v /\ RunFrame) =>
               obs'.passes = 1

\* C4: while the lock is off no event of either view (a frame callback
\* requested earlier included) changes the counterpart view, and while the
\* lock is on every such event is synchronized to the counterpart view.
C4_LockGatesSynchronization ==
    [][LockOffNoCounterpartWrite /\ LockOnEventSynchronized]_vars

\* C5: with the lock on, whenever a handler that did not throw leaves no
\* event and no frame callback pending, both views show the same page index,
\* zoom and scroll offsets.
C5_LockedViewsConverge ==
    [][(isScrollLockedRef /\ isScrollLockedRef' /\ Quiescent' /\ ~obs'.threw)
           => ViewsEqual']_vars


\* C33: when the frame callback of a view has run, that view's pending-frame
\* flag is cleared, also when the sync pass inside the callback threw, so a
\* scroll event of that view handled afterwards requests a new callback.
C33_FrameFlagCleared ==
    [][\A v \in Views :
          /\ (rafQueue # <<>> /\ Head(rafQueue) = v /\ RunFrame) => ~scrollFrame'[v]
          /\ (DispatchScroll(v) /\ Pending(rafQueue, v) = {}) =>
                 Pending(rafQueue', v) # {}]_vars

\* a frame callback of view v runs and its sync pass completes
FramePass(v) ==
    /\ rafQueue # <<>> /\ Head(rafQueue) = v
    /\ RunFrame
    /\ obs'.passes = 1
    /\ ~obs'.threw

\* the user's zoom change in view v is synchronized by a pass that completes
ZoomPass(v) ==
    /\ UserZoom(v)
    /\ obs'.passes = 1
    /\ ~obs'.threw

\* C21: a pass that starts with source and target on different pages sets the
\* target's page index to the source's and writes no other field of the
\* target at any point: neither its zoom nor its scroll offsets.
C21_PagePassWritesPageOnly ==
    [][\A v \in Views :
          (FramePass(v)
             /\ view[v].currentPageIndex # view[Other(v)].currentPageIndex) =>
              /\ view'[Other(v)].currentPageIndex = view[v].currentPageIndex
              /\ \A k \in 1..Len(obs'.writes) :
                    obs'.writes[k] = Written(Other(v), "currentPageIndex")]_vars

borderColor == [r |-> 59, g |-> 130, b |-> 246]
PageGap == 10
MaxInFlight == 2
MaxBorders == 4

\* the scroll container clamps a requested offset to its scrollable range
ClampScroll(top) ==
    LET maxTop == Cardinality(ViewPages) * PageHeight - 1
    IN  IF top > maxTop THEN maxTop ELSE top

\* the for loop of scrollToPage from page index page on: pageInfo.height * zoom + 10
\* for every page before the target page
RECURSIVE CumulativeHeight(_, _, _)
CumulativeHeight(page, targetPageIndex, zoom) ==
    IF page >= targetPageIndex THEN 0
    ELSE PageHeight * zoom + PageGap
         + CumulativeHeight(page + 1, targetPageIndex, zoom)

\* scrollToPage(instance of v, targetPageIndex) after its awaits: scrollTo,
\* then setViewState(viewState.set("currentPageIndex", targetPageIndex))
ScrollToPage(st, v, targetPageIndex) ==
    LET zoom == st.view[v].zoom
        top == ClampScroll(CumulativeHeight(0, targetPageIndex, zoom) + 0)
        s1 == SetScroll(st, v, top, st.view[v].scrollLeft)
    IN  SetViewState(s1, v, targetPageIndex, s1.view[v].zoom)

\* new RectangleAnnotation({pageIndex, boundingBox: rect expanded by 3, ...})
BorderAnnotation(id, page, rect) ==
    [id |-> id, kind |-> "rectangle", pageIndex |-> page,
     boundingBox |-> [left |-> rect.left - 3, top |-> rect.top - 3,
                      width |-> rect.width + 6, height |-> rect.height + 6],
     strokeColor |-> borderColor, strokeWidth |-> 2]

\* the selection borders that exist in the two views
Borders(anns) ==
    {a \in anns["original"] \cup anns["changed"] : a.kind = "rectangle"}

AnnotationIds(anns, v) == {a.id : a \in anns[v]}

\* instance.delete(annotationId) on the instance of view v
Delete(anns, v, annotationId) ==
    [anns EXCEPT ![v] = {a \in @ : a.id # annotationId}]

\* the identifier the engine gives the next created annotation: one that no
\* annotation, no recorded identifier and no handler in flight refers to
FreshId(anns, recorded, sels, lookup) ==
    LET used == AnnotationIds(anns, "original") \cup AnnotationIds(anns, "changed")
                \cup SeqRange(recorded)
                \cup UNION {SeqRange(sels[n].ids) : n \in 1..Len(sels)}
                \cup MapKeys(lookup)
    IN  CHOOSE id \in 1..(Cardinality(used) + 1) :
            /\ id \notin used
            /\ \A smaller \in 1..(id - 1) : smaller \in used

Selection(operation, await) ==
    [operation |-> operation, pc |-> await, k |-> 0, live |-> FALSE, ids |-> <<>>]

RemoveAt(seq, n) == SubSeq(seq, 1, n - 1) \o SubSeq(seq, n + 1, Len(seq))

\* the array the delete loop of selection n iterates
IteratedIds(sel) == IF sel.live THEN selectionAnnotationIdsRef ELSE sel.ids

\* selectionAnnotationIdsRef.current = []: the loops of other selections that
\* still iterate the replaced array keep that array
Detach(sels, n) ==
    [m \in 1..Len(sels) |->
        IF m # n /\ sels[m].live
        THEN [sels[m] EXCEPT !.live = FALSE, !.ids = selectionAnnotationIdsRef]
        ELSE sels[m]]

\* where highlightSelectedChange waits next, from its first border on
AwaitFrom(operation, stage) ==
    IF stage = "createOriginal" /\ HasFlag(operation, "del")
                                /\ "originalRect" \in DOMAIN operation
                                /\ "pageIndex" \in DOMAIN operation
    THEN "createOriginal"
    ELSE IF HasFlag(operation, "insert") /\ "changedRect" \in DOMAIN operation
                                         /\ "pageIndex" \in DOMAIN operation
         THEN "createChanged"
         ELSE "finished"

\* selection n moves to the named await, or returns
Resume(sels, n, await) ==
    IF await = "finished" THEN RemoveAt(sels, n)
    ELSE [sels EXCEPT ![n].pc = await, ![n].live = FALSE, ![n].ids = <<>>, ![n].k = 0]

\* a request served without starting a selection
Clamped(request) ==
    /\ obs' = [NoHandler EXCEPT !.request = request]
    /\ UNCHANGED <<view, isScrollLocked, isScrollLockedRef, isSyncingRef,
                   scrollFrame, rafQueue, scrollEvent>>
    /\ UNCHANGED <<runVars, annVars, selVars, displayVars, callVars, offsetVars>>

\* setSelectedChangeIndex(index) and the handler up to its first await: with
\* target page 0 scrollToPage has no await before it scrolls the original view
SelectChange(operation, index, request) ==
    /\ Len(selections) < MaxInFlight
    /\ Cardinality(Borders(annotations)) + 2 * (Len(selections) + 1) <= MaxBorders
    /\ selectedChangeIndex' = index
    /\ IF "pageIndex" \in DOMAIN operation
       THEN IF operation.pageIndex = 0
            THEN LET st == ScrollToPage(HandlerState, "original", 0)
                 IN  /\ CommitState(st)
                     /\ obs' = [st.obs EXCEPT !.request = request]
                     /\ selections' = Append(selections,
                                             Selection(operation, "scrollChanged"))
            ELSE /\ selections' = Append(selections,
                                         Selection(operation, "scrollOriginal"))
                 /\ obs' = [NoHandler EXCEPT !.request = request]
                 /\ UNCHANGED <<view, isSyncingRef, scrollEvent>>
       ELSE /\ obs' = [NoHandler EXCEPT !.request = request]
            /\ UNCHANGED <<view, isSyncingRef, scrollEvent, selections>>
    /\ UNCHANGED <<isScrollLocked, isScrollLockedRef, scrollFrame, rafQueue,
                   selectionAnnotationIdsRef>>
    /\ UNCHANGED <<runVars, annVars, displayVars, callVars, offsetVars>>

\* a click on item index of the sidebar list
handleChangeClick(index) ==
    /\ index \in 0..(Len(operationsMap) - 1)
    /\ SelectChange(operationsMap[index + 1].value, index, "click")

\* the "annotations.press" listener of both instances: a click on the
\* annotation with identifier annotationId
handleAnnotationClick(annotationId) ==
    /\ annotationId \in AnnotationIds(annotations, "original")
                         \cup AnnotationIds(annotations, "changed")
    /\ LET changeIndex == ClickTarget(annotationToChangeIndexRef, operationsRef,
                                      annotationId)
       IN  IF changeIndex # -1
           THEN SelectChange(operationsRef[changeIndex + 1].value, changeIndex,
                             "annotation")
           ELSE Clamped("annotation")

handlePreviousChange ==
    LET changesArray == operationsMap
    IN  IF selectedChangeIndex > 0
        THEN LET newIndex == selectedChangeIndex - 1
             IN  SelectChange(changesArray[newIndex + 1].value, newIndex, "previous")
        ELSE Clamped("previous")

\* mutant of handleNextChange: after the last change comes the first one
handleNextChangeWrapsAround ==
    LET changesArray == operationsMap
    IN  IF Len(changesArray) > 0
        THEN LET newIndex == (selectedChangeIndex + 1) % Len(changesArray)
             IN  SelectChange(changesArray[newIndex + 1].value, newIndex, "next")
        ELSE Clamped("next")

handleNextChange ==
    LET changesArray == operationsMap
    IN  IF selectedChangeIndex < Len(changesArray) - 1
        THEN LET newIndex == selectedChangeIndex + 1
             IN  SelectChange(changesArray[newIndex + 1].value, newIndex, "next")
        ELSE Clamped("next")

\* selection n resumes in scrollToPage of the original view, or after it in
\* scrollToPage of the changed view
ScrollStep(n) ==
    /\ n \in 1..Len(selections)
    /\ selections[n].pc \in {"scrollOriginal", "scrollChanged"}
    /\ LET sel == selections[n]
           v == IF sel.pc = "scrollOriginal" THEN "original" ELSE "changed"
           await == IF sel.pc = "scrollOriginal" THEN "scrollChanged" ELSE "highlight"
       IN  /\ Commit(ScrollToPage(HandlerState, v, sel.operation.pageIndex))
           /\ selections' = Resume(selections, n, await)
    /\ UNCHANGED <<isScrollLocked, isScrollLockedRef, scrollFrame, rafQueue,
                   selectedChangeIndex, selectionAnnotationIdsRef>>
    /\ UNCHANGED <<runVars, annVars, displayVars, callVars, offsetVars>>

\* the delete loop of selection n is over: selectionAnnotationIdsRef.current = []
\* and the handler goes on to its first create
ResetSelection(n) ==
    /\ selectionAnnotationIdsRef' = <<>>
    /\ selections' = Resume(Detach(selections, n), n,
                            AwaitFrom(selections[n].operation, "createOriginal"))

\* selection n enters highlightSelectedChange: the delete loop starts on the
\* array that is current now
HighlightStep(n) ==
    /\ n \in 1..Len(selections)
    /\ selections[n].pc = "highlight"
    /\ IF Len(selectionAnnotationIdsRef) = 0
       THEN ResetSelection(n)
       ELSE /\ selections' = [selections EXCEPT ![n].pc = "deleteOriginal",
                                                ![n].live = TRUE, ![n].k = 0]
            /\ UNCHANGED selectionAnnotationIdsRef
    /\ obs' = NoHandler
    /\ UNCHANGED <<view, isScrollLocked, isScrollLockedRef, isSyncingRef,
                   scrollFrame, rafQueue, scrollEvent, selectedChangeIndex>>
    /\ UNCHANGED <<runVars, annVars, displayVars, callVars, offsetVars>>

\* one await of the delete loop of selection n returns: delete on the original
\* instance, or after its rejection delete on the changed instance, whose
\* rejection is ignored
DeleteStep(n) ==
    /\ n \in 1..Len(selections)
    /\ selections[n].pc \in {"deleteOriginal", "deleteChanged"}
    /\ LET sel == selections[n]
           v == IF sel.pc = "deleteOriginal" THEN "original" ELSE "changed"
           ids == IteratedIds(sel)
           annotationId == ids[sel.k + 1]
           found == annotationId \in AnnotationIds(annotations, v)
       IN  /\ annotations' = IF found THEN Delete(annotations, v, annotationId)
                             ELSE annotations
           /\ IF ~found /\ sel.pc = "deleteOriginal"
              THEN /\ selections' = [selections EXCEPT ![n].pc = "deleteChanged"]
                   /\ UNCHANGED selectionAnnotationIdsRef
              ELSE IF sel.k + 1 < Len(ids)
                   THEN /\ selections' = [selections EXCEPT ![n].pc = "deleteOriginal",
                                                            ![n].k = sel.k + 1]
                        /\ UNCHANGED selectionAnnotationIdsRef
                   ELSE ResetSelection(n)
    /\ obs' = NoHandler
    /\ UNCHANGED <<view, isScrollLocked, isScrollLockedRef, isSyncingRef,
                   scrollFrame, rafQueue, scrollEvent, selectedChangeIndex, nextId>>
    /\ UNCHANGED <<runVars, displayVars, callVars, offsetVars>>

\* a create of selection n returns: the border exists and its identifier is
\* pushed on selectionAnnotationIdsRef.current
CreateStep(n) ==
    /\ n \in 1..Len(selections)
    /\ selections[n].pc \in {"createOriginal", "createChanged"}
    /\ LET sel == selections[n]
           operation == sel.operation
           v == IF sel.pc = "createOriginal" THEN "original" ELSE "changed"
           rect == IF sel.pc = "createOriginal" THEN operation.originalRect
                   ELSE operation.changedRect
           await == IF sel.pc = "createOriginal"
                    THEN AwaitFrom(operation, "createChanged") ELSE "finished"
           created == Create(annotations, v,
                             BorderAnnotation(nextId, operation.pageIndex, rect))
           recorded == Append(selectionAnnotationIdsRef, nextId)
           resumed == Resume(selections, n, await)
       IN  /\ annotations' = created
           /\ selectionAnnotationIdsRef' = recorded
           /\ selections' = resumed
           /\ nextId' = FreshId(created, recorded, resumed, annotationToChangeIndexRef)
    /\ obs' = NoHandler
    /\ UNCHANGED <<view, isScrollLocked, isScrollLockedRef, isSyncingRef,
                   scrollFrame, rafQueue, scrollEvent, selectedChangeIndex>>
    /\ UNCHANGED <<runVars, displayVars, callVars, offsetVars>>

(***************************************************************************)
(* SpecNav: selection and navigation over the change list a finished       *)
(* comparison run has published.  The list has up to one change per        *)
(* rectangle pair, built by the writes of the run.  The scroll events the  *)
(* selections raise stay queued (their handling is the subject of          *)
(* SpecSync), and the engine calls of a selection succeed.                 *)
(***************************************************************************)
ChangeKinds == {"delete", "insert", "replacement"}

RectPairs ==
    <<[delete |-> <<100, 200, 500, 120>>, insert |-> <<100, 200, 600, 120>>],
      [delete |-> <<305, 400, 500, 120>>, insert |-> <<305, 400, 600, 120>>]>>

\* what the run found: per change its kind and page, one change per page
Findings ==
    {f \in UNION {[1..n -> [kind : ChangeKinds, pageIndex : ViewPages]] :
                     n \in 0..Len(RectPairs)} :
        \A n \in 1..Len(f) : f[n].pageIndex = n - 1}

\* the page loop over the findings from position n on: acc holds
\* operationsRef.current, the annotations and the next identifier
RECURSIVE Aggregate(_, _, _)
Aggregate(findings, n, acc) ==
    IF n > Len(findings) THEN acc
    ELSE LET page == findings[n].pageIndex
             deleteOp == [type |-> "delete", text |-> "old text",
                          rect |-> RectPairs[n].delete]
             insertOp == [type |-> "insert", text |-> "new words",
                          rect |-> RectPairs[n].insert]
             deleteAnnotation ==
                 HighlightAnnotation(acc.nextId, page, GeometryRect(deleteOp.rect),
                                     deleteHighlightColor)
             next ==
                 CASE findings[n].kind = "delete" ->
                        [operationsRef |->
                            MapSetAll(acc.operationsRef,
                                      DeleteEntry(<<>>, deleteOp, page, acc.nextId)),
                         annotations |->
                            Create(acc.annotations, "original", deleteAnnotation),
                         nextId |-> acc.nextId + 1]
                   [] findings[n].kind = "insert" ->
                        [operationsRef |->
                            MapSetAll(acc.operationsRef,
                                      InsertEntry(<<>>, insertOp, page, acc.nextId)),
                         annotations |->
                            Create(acc.annotations, "changed",
                                   HighlightAnnotation(acc.nextId, page,
                                                       GeometryRect(insertOp.rect),
                                                       insertHighlightColor)),
                         nextId |-> acc.nextId + 1]
                   [] OTHER ->
                        [operationsRef |->
                            MapSetAll(acc.operationsRef,
                                      ReplacementEntry(<<>>, deleteOp, insertOp, page,
                                                       acc.nextId, acc.nextId + 1)),
                         annotations |->
                            Create(Create(acc.annotations, "original", deleteAnnotation),
                                   "changed",
                                   HighlightAnnotation(acc.nextId + 1, page,
                                                       GeometryRect(insertOp.rect),
                                                       insertHighlightColor)),
                         nextId |-> acc.nextId + 2]
         IN  Aggregate(findings, n + 1, next)

InitNav ==
    /\ \E findings \in Findings :
          LET run == Aggregate(findings, 1,
                               [operationsRef |-> <<>>,
                                annotations |-> [v \in Views |-> {}],
                                nextId |-> 1])
          IN  /\ operationsRef = run.operationsRef
              /\ operationsMap = run.operationsRef
              /\ annotationToChangeIndexRef =
                    MapSetAll(<<>>, AnnotationMap(run.operationsRef, 0))
              /\ annotations = run.annotations
              /\ nextId = run.nextId
    /\ pc = "done"
    /\ totalPageCount = Cardinality(ViewPages)
    /\ pageIndex = totalPageCount
    /\ changes = <<>>
    /\ hunk = <<>>
    /\ operations = <<>>
    /\ i = 0
    /\ budget = 0
    /\ Loaded
    /\ SyncInit
    /\ SelInit
    /\ DisplayInit
    /\ CallInit /\ OffsetInit

NextNav ==
    \/ handlePreviousChange
    \/ handleNextChange
    \/ \E index \in 0..(Len(RectPairs) - 1) : handleChangeClick(index)
    \/ \E annotationId \in AnnotationIds(annotations, "original")
                             \cup AnnotationIds(annotations, "changed") :
          handleAnnotationClick(annotationId)
    \/ \E n \in 1..MaxInFlight :
          \/ ScrollStep(n)
          \/ HighlightStep(n)
          \/ DeleteStep(n)
          \/ CreateStep(n)
    \/ ToggleScrollLock

SpecNav == InitNav /\ [][NextNav]_vars

\* what a navigation request may change
NavigationState ==
    <<selectedChangeIndex, view, annotations, selectionAnnotationIdsRef,
      selections, scrollEvent, rafQueue, scrollFrame>>

\* C9: previous at index 0, and next at the last index or on an empty list,
\* change nothing: not the selected index, not a view, not an annotation or
\* recorded border, and no selection is started.
C9_NavigationClamps ==
    [][/\ (obs'.request = "previous" /\ selectedChangeIndex = 0)
              => UNCHANGED NavigationState
       /\ (obs'.request = "next" /\ selectedChangeIndex >= Len(operationsMap) - 1)
              => UNCHANGED NavigationState]_vars

\* next was requested at the last index of a list of two changes while the
\* borders of that change were shown
C9_Witness ==
    /\ obs.request = "next"
    /\ Len(operationsMap) = 2
    /\ selectedChangeIndex = 1
    /\ Len(selectionAnnotationIdsRef) > 0
    /\ selections = <<>>

\* the selection borders of view v
BordersIn(anns, v) == {a \in anns[v] : a.kind = "rectangle"}

\* the borders highlightSelectedChange draws for operation in view v
BordersFor(operation, v) ==
    IF v = "original"
    THEN IF HasFlag(operation, "del") /\ "originalRect" \in DOMAIN operation
         THEN {[pageIndex |-> operation.pageIndex,
                boundingBox |-> BorderAnnotation(0, 0, operation.originalRect).boundingBox]}
         ELSE {}
    ELSE IF HasFlag(operation, "insert") /\ "changedRect" \in DOMAIN operation
         THEN {[pageIndex |-> operation.pageIndex,
                boundingBox |-> BorderAnnotation(0, 0, operation.changedRect).boundingBox]}
         ELSE {}

\* the views hold the borders of operation and no other border
OnlyBordersOf(anns, operation) ==
    \A v \in Views :
        /\ Cardinality(BordersIn(anns, v)) = Cardinality(BordersFor(operation, v))
        /\ \A a \in BordersIn(anns, v) :
              [pageIndex |-> a.pageIndex, boundingBox |-> a.boundingBox]
                  \in BordersFor(operation, v)

\* selection n returns from highlightSelectedChange with this step
Completes(n) == CreateStep(n) /\ Len(selections') < Len(selections)

\* C11: the delete loop of a selection creates no border, and when a selection
\* completes the views hold the borders of the change it selected and no
\* border of an earlier selection.
C11_PreviousBordersRemoved ==
    [][\A n \in 1..MaxInFlight :
          /\ (HighlightStep(n) \/ DeleteStep(n)) =>
                 Borders(annotations') \subseteq Borders(annotations)
          /\ Completes(n) => OnlyBordersOf(annotations', selections[n].operation)]_vars

\* a step of a handler that selects a change
Selects(operation, index) ==
    \E request \in {"click", "annotation", "previous", "next"} :
        SelectChange(operation, index, request)

\* no selection is in flight and the views show the change at the highlighted
\* index: its page in both views, its borders and no other border
ShowsHighlightedChange ==
    (selections = <<>> /\ Borders(annotations) # {}) =>
        /\ selectedChangeIndex < Len(operationsMap)
        /\ LET operation == operationsMap[selectedChangeIndex + 1].value
           IN  /\ \A v \in Views : view[v].currentPageIndex = operation.pageIndex
               /\ OnlyBordersOf(annotations, operation)

\* C12: a selection of the change at index k sets the highlighted index to k,
\* and once the selections have completed both views show the page of the
\* highlighted change and the only borders are those of that change, with the
\* lock on or off.
C12_SelectionShowsChange ==
    [][/\ \A k \in 0..(Len(operationsMap) - 1) :
             Selects(operationsMap[k + 1].value, k) => selectedChangeIndex' = k
       /\ ShowsHighlightedChange']_vars

\* C28: the recorded selection border identifiers number at most two at any
\* time, and when no selection is in flight each of them is the identifier
\* of a border that exists in a view and is a border of the change at the
\* highlighted index.
C28_BordersOfOneChange ==
    /\ Len(selectionAnnotationIdsRef) <= 2
    /\ (selections = <<>> /\ selectionAnnotationIdsRef # <<>>) =>
          /\ selectedChangeIndex < Len(operationsMap)
          /\ \A k \in 1..Len(selectionAnnotationIdsRef) :
                \E v \in Views : \E a \in BordersIn(annotations, v) :
                   /\ a.id = selectionAnnotationIdsRef[k]
                   /\ [pageIndex |-> a.pageIndex, boundingBox |-> a.boundingBox]
                         \in BordersFor(operationsMap[selectedChangeIndex + 1].value, v)

(***************************************************************************)
(* SpecRerun: compareDocuments invoked more than once on the same          *)
(* component (the refs survive).  A further invocation starts either while *)
(* the earlier ones still wait for the load of the original document (the  *)
(* effect running twice on mount) or after a run has published.  The page  *)
(* loops of two invocations do not overlap: an invocation's load of the    *)
(* changed document resolves when no page loop is running.  The engine is  *)
(* free to refuse a load into a container that holds an instance; the      *)
(* rejection ends that invocation.  The bound on the operations the engine *)
(* returns covers all runs together.                                       *)
(***************************************************************************)
MaxInvocations == 2

\* compareDocuments up to its first await: both containers are unloaded (the
\* instances mounted in them go, with their annotations) and the load of the
\* original document is requested
compareDocuments ==
    /\ pc \in {"start", "done"}
    /\ Len(invocations) < MaxInvocations
    /\ \A n \in 1..Len(invocations) : invocations[n] = "original"
    /\ instances' = [v \in Views |-> 0]
    /\ annotations' = [v \in Views |-> {}]
    /\ invocations' = Append(invocations, "original")
    /\ UNCHANGED <<pc, totalPageCount, pageIndex, changes, hunk, operations, i, budget,
                   operationsRef, operationsMap, annotationToChangeIndexRef, nextId>>
    /\ UNCHANGED <<syncVars, selVars, displayVars, callVars, offsetVars>>

\* the load invocation n waits for settles: the instance is mounted in the
\* container; after the original the changed document is loaded, after the
\* changed document the page loop starts with fresh locals
LoadResolves(n) ==
    /\ n \in 1..Len(invocations)
    /\ LET container == invocations[n]
       IN  \E rejects \in BOOLEAN :
              /\ rejects => instances[container] > 0
              /\ IF rejects
                 THEN /\ invocations' = RemoveAt(invocations, n)
                      /\ UNCHANGED <<instances, pc, pageIndex, changes, hunk,
                                     operations, i>>
                 ELSE /\ instances' = [instances EXCEPT ![container] = @ + 1]
                      /\ IF container = "original"
                         THEN /\ invocations' = [invocations EXCEPT ![n] = "changed"]
                              /\ UNCHANGED <<pc, pageIndex, changes, hunk,
                                             operations, i>>
                         ELSE /\ pc \in {"start", "done"}
                              /\ invocations' = RemoveAt(invocations, n)
                              /\ pc' = "loop"
                              /\ pageIndex' = 0
                              /\ changes' = <<>>
                              /\ hunk' = <<>>
                              /\ operations' = <<>>
                              /\ i' = 0
    /\ UNCHANGED <<totalPageCount, budget, operationsRef, operationsMap,
                   annotationToChangeIndexRef>>
    /\ UNCHANGED <<annVars, syncVars, selVars, displayVars, callVars, offsetVars>>

InitRerun == InitRun

NextRerun ==
    \/ compareDocuments
    \/ \E n \in 1..MaxInvocations : LoadResolves(n)
    \/ ComparePage
    \/ TakeHunk
    \/ ProcessReplacement
    \/ ProcessStandalone
    \/ EndPage
    \/ PublishResults

SpecRerun == InitRerun /\ [][NextRerun]_vars

\* a run has published and its two instances are the only ones mounted
RunCompleted ==
    /\ pc = "done"
    /\ invocations = <<>>
    /\ \A v \in Views : instances[v] = 1

\* the identifiers of the annotations the mounted instances hold
MountedIds == {a.id : a \in AllAnnotations}

\* C14: after a run has completed, and so after a second run has, the change
\* list and the annotation lookup hold only annotation identifiers that this
\* run created (every entry records identifiers of this run only).
C14_RebuiltOnRerun ==
    RunCompleted =>
        /\ \A k \in 1..Len(operationsRef) :
              SeqRange(AnnotationIdsOf(operationsRef[k].value)) \subseteq MountedIds
        /\ MapKeys(annotationToChangeIndexRef) \subseteq MountedIds

\* C15: a container never holds more than one loaded view instance.
C15_OneInstancePerContainer ==
    \A v \in Views : instances[v] <= 1

(***************************************************************************)
(* SpecWords: countWords, the helper behind the word counts of the         *)
(* sidebar.  A text is a sequence of characters; Undefined stands for an   *)
(* absent deleteText / insertText.                                         *)
(***************************************************************************)
MaxTextLen == 6

Chars == {"a", " "}

IsWhitespace(c) == c = " "

Texts == UNION {[1..n -> Chars] : n \in 0..MaxTextLen}

\* String.prototype.trim
RECURSIVE TrimStart(_)
TrimStart(s) ==
    IF s # <<>> /\ IsWhitespace(Head(s)) THEN TrimStart(Tail(s)) ELSE s

RECURSIVE TrimEnd(_)
TrimEnd(s) ==
    IF s # <<>> /\ IsWhitespace(s[Len(s)])
    THEN TrimEnd(SubSeq(s, 1, Len(s) - 1))
    ELSE s

Trim(s) == TrimEnd(TrimStart(s))

\* String.prototype.split(/\s+/): the pieces between the runs of whitespace,
\* empty pieces included; rest is the text still to read, piece the piece
\* being read, inRun whether the character before was whitespace
RECURSIVE Split(_, _, _)
Split(rest, piece, inRun) ==
    IF rest = <<>> THEN <<piece>>
    ELSE IF IsWhitespace(Head(rest))
         THEN IF inRun
              THEN Split(Tail(rest), piece, TRUE)
              ELSE <<piece>> \o Split(Tail(rest), <<>>, TRUE)
         ELSE Split(Tail(rest), Append(piece, Head(rest)), FALSE)

\* text ? text.trim().split(/\s+/).length : 0
countWords(t) ==
    IF t # Undefined /\ t # <<>>
    THEN Len(Split(Trim(t), <<>>, FALSE))
    ELSE 0

\* countWords is called with t
CountWords(t) ==
    /\ text' = t
    /\ wordCount' = countWords(t)
    /\ UNCHANGED <<runVars, annVars, syncVars, selVars, callVars, offsetVars>>

InitWords ==
    /\ RunInit /\ LoadInit /\ AnnInit /\ SyncInit /\ SelInit /\ CallInit /\ OffsetInit
    /\ text \in Texts \cup {Undefined}
    /\ wordCount = 0

NextWords == \E t \in Texts \cup {Undefined} : CountWords(t)

SpecWords == InitWords /\ [][NextWords]_vars

\* the words of a text: its maximal runs of characters that are not whitespace
NumberOfWords(t) ==
    IF t = Undefined THEN 0
    ELSE Cardinality({k \in 1..Len(t) :
                         /\ ~IsWhitespace(t[k])
                         /\ (k = 1 \/ IsWhitespace(t[k - 1]))})

\* C17: countWords returns the number of whitespace-separated words of the
\* text, and 0 for an absent text, an empty text and a text whose trimmed form
\* is empty.
C17_CountWords ==
    [][wordCount' = NumberOfWords(text')]_vars

(***************************************************************************)
(* SpecScroll: scrollToPage called for any view, target page and view      *)
(* state, with the scroll container of the view found or missing.          *)
(***************************************************************************)
\* the view states the engine can be in: the page shown is the page of the
\* scroll offset
ViewStates ==
    {vs \in [currentPageIndex : ViewPages, zoom : ZoomLevels,
             scrollTop : ScrollTops, scrollLeft : ScrollLefts] :
        vs.currentPageIndex = PageOfScrollTop(vs.scrollTop)}

\* mutant of scrollToPage: the container is not tested
scrollToPageWithoutCheck(st, v, targetPageIndex, scrollContainer) ==
    ScrollToPage(st, v, targetPageIndex)

\* scrollToPage(instance of v, targetPageIndex); scrollContainer tells whether
\* querySelector(".PSPDFKit-Scroll") found the container
scrollToPage(st, v, targetPageIndex, scrollContainer) ==
    IF ~scrollContainer
    THEN st
    ELSE ScrollToPage(st, v, targetPageIndex)

\* a call of scrollToPage; the request names what the call logged
ScrollToPageCall(v, targetPageIndex, scrollContainer) ==
    /\ LET st == scrollToPage(HandlerState, v, targetPageIndex, scrollContainer)
       IN  /\ CommitState(st)
           /\ obs' = [st.obs EXCEPT !.request =
                         IF scrollContainer THEN "scrollToPage"
                         ELSE "Scroll container not found"]
    /\ UNCHANGED <<isScrollLocked, isScrollLockedRef, scrollFrame, rafQueue>>
    /\ UNCHANGED <<runVars, annVars, selVars, displayVars, callVars, offsetVars>>

InitScroll ==
    /\ RunInit /\ totalPageCount = Cardinality(ViewPages)
    /\ Loaded /\ AnnInit /\ SelInit /\ DisplayInit /\ CallInit /\ OffsetInit
    /\ view \in [Views -> ViewStates]
    /\ isScrollLocked \in BOOLEAN
    /\ isScrollLockedRef = isScrollLocked
    /\ isSyncingRef = FALSE
    /\ scrollFrame = [v \in Views |-> FALSE]
    /\ rafQueue = <<>>
    /\ scrollEvent = [v \in Views |-> FALSE]
    /\ obs = NoHandler

NextScroll ==
    \E v \in Views, targetPageIndex \in ViewPages, scrollContainer \in BOOLEAN :
        ScrollToPageCall(v, targetPageIndex, scrollContainer)

SpecScroll == InitScroll /\ [][NextScroll]_vars

\* C19: a call of scrollToPage that finds no scroll container changes neither
\* the scroll offsets nor the page index of any view, queues no scroll event
\* and raises no error; it only logs the warning.
C19_MissingContainerOnlyWarns ==
    [][\A v \in Views, targetPageIndex \in ViewPages :
          ScrollToPageCall(v, targetPageIndex, FALSE) =>
              /\ view' = view
              /\ scrollEvent' = scrollEvent
              /\ isSyncingRef' = isSyncingRef
              /\ ~obs'.threw
              /\ obs'.passes = 0
              /\ obs'.request = "Scroll container not found"]_vars

\* C19 witness: the warning was logged for a view that an earlier call had
\* moved to page 1
C19_Witness ==
    /\ obs.request = "Scroll container not found"
    /\ scrollEvent["changed"]
    /\ view["changed"].currentPageIndex = 1
    /\ view["original"].currentPageIndex = 0

(***************************************************************************)
(* SpecOneWay: the synchronizer of src/src/app/page.tsx.  syncViewState is *)
(* the scroll listener of the changed view's container and the listener of *)
(* its page and zoom changes; it runs at once (no frame callback, no lock, *)
(* no guard).  The original view has no listeners.                         *)
(***************************************************************************)
\* originalInstance.setViewState(viewState): the whole view state is replaced
\* and a page change scrolls the container to the top of the page
ReplaceViewState(st, v, page, zoom) ==
    LET old == st.view[v]
        top == IF page # old.currentPageIndex THEN PageTop(page) ELSE old.scrollTop
    IN  [st EXCEPT !.view[v].currentPageIndex = page,
                   !.view[v].zoom = zoom,
                   !.view[v].scrollTop = top,
                   !.scrollEvent[v] = @ \/ (top # old.scrollTop)]

\* syncViewState: both setViewState calls start from the view state read
\* before the first of them
syncViewState(st) ==
    LET customViewState ==
            [pageNumber |-> st.view["changed"].currentPageIndex,
             zoomLevel |-> st.view["changed"].zoom,
             scrollLeft |-> st.view["changed"].scrollLeft,
             scrollTop |-> st.view["changed"].scrollTop]
        viewState == st.view["original"]
        s1 == ReplaceViewState(st, "original", customViewState.pageNumber,
                               viewState.zoom)
        s2 == ReplaceViewState(s1, "original", viewState.currentPageIndex,
                               customViewState.zoomLevel)
        s3 == SetScroll(s2, "original", customViewState.scrollTop,
                        customViewState.scrollLeft)
    IN  [s3 EXCEPT !.obs.passes = @ + 1, !.obs.request = "syncViewState"]

\* the user picks a zoom level in the changed view: viewState.zoom.change
ChangedViewZoom ==
    /\ \E zoom \in ZoomLevels \ {view["changed"].zoom} :
          Commit(syncViewState([HandlerState EXCEPT !.view["changed"].zoom = zoom]))
    /\ UNCHANGED <<isScrollLocked, isScrollLockedRef, scrollFrame, rafQueue>>
    /\ UNCHANGED <<runVars, annVars, selVars, displayVars, callVars, offsetVars>>

\* the user picks a page in the changed view: viewState.currentPageIndex.change
ChangedViewPage ==
    /\ \E page \in ViewPages \ {view["changed"].currentPageIndex} :
          Commit(syncViewState(ReplaceViewState(HandlerState, "changed", page,
                                                view["changed"].zoom)))
    /\ UNCHANGED <<isScrollLocked, isScrollLockedRef, scrollFrame, rafQueue>>
    /\ UNCHANGED <<runVars, annVars, selVars, displayVars, callVars, offsetVars>>

\* the queued scroll event of the changed view's container is dispatched: the
\* engine derives the current page (the page listener runs) and the scroll
\* listener runs
ChangedViewScrollEvent ==
    /\ scrollEvent["changed"]
    /\ LET s0 == [HandlerState EXCEPT !.scrollEvent["changed"] = FALSE]
           page == PageOfScrollTop(view["changed"].scrollTop)
           s1 == IF page # view["changed"].currentPageIndex
                 THEN syncViewState([s0 EXCEPT !.view["changed"].currentPageIndex = page])
                 ELSE s0
       IN  Commit(syncViewState(s1))
    /\ UNCHANGED <<isScrollLocked, isScrollLockedRef, scrollFrame, rafQueue>>
    /\ UNCHANGED <<runVars, annVars, selVars, displayVars, callVars, offsetVars>>

\* the queued scroll event of the original view's container is dispatched: the
\* engine derives the current page; nothing listens
OriginalViewScrollEvent ==
    /\ scrollEvent["original"]
    /\ view' = [view EXCEPT !["original"].currentPageIndex =
                                PageOfScrollTop(view["original"].scrollTop)]
    /\ scrollEvent' = [scrollEvent EXCEPT !["original"] = FALSE]
    /\ obs' = NoHandler
    /\ UNCHANGED <<isScrollLocked, isScrollLockedRef, isSyncingRef, scrollFrame,
                   rafQueue>>
    /\ UNCHANGED <<runVars, annVars, selVars, displayVars, callVars, offsetVars>>

InitOneWay == InitSync

NextOneWay ==
    \/ \E v \in Views : UserScroll(v)
    \/ ChangedViewZoom
    \/ ChangedViewPage
    \/ ChangedViewScrollEvent
    \/ OriginalViewScrollEvent

SpecOneWay == InitOneWay /\ [][NextOneWay]_vars

\* C20: after syncViewState has run for a scroll, page or zoom event of the
\* changed view, the original view's page index, zoom level and scroll offsets
\* equal the changed view's.
C20_OriginalFollowsChanged ==
    (obs.request = "syncViewState") => view["original"] = view["changed"]

(***************************************************************************)
(* SpecFail: a comparison run in which an engine call may reject.          *)
(* compareDocuments has no try/catch and the effect does not handle the    *)
(* promise: a rejection leaves the function at the awaiting line.  The     *)
(* position "failed" stands for the run that ended this way.               *)
(***************************************************************************)
\* await NutrientViewer.load(...) or await originalInstance.totalPageCount
\* rejects; mounted tells which containers got their instance before
LoadRejects ==
    /\ pc = "start"
    /\ pc' = "failed"
    /\ \E mounted \in {{}, {"original"}, {"original", "changed"}} :
          instances' = [v \in Views |-> IF v \in mounted THEN 1 ELSE 0]
    /\ UNCHANGED <<totalPageCount, pageIndex, changes, hunk, operations, i, budget,
                   operationsRef, operationsMap, annotationToChangeIndexRef,
                   invocations>>
    /\ UNCHANGED <<annVars, syncVars, selVars, displayVars, callVars, offsetVars>>

\* await originalInstance.compareDocuments(...) of page pageIndex rejects
ComparisonRejects ==
    /\ pc = "loop"
    /\ pageIndex < totalPageCount
    /\ pc' = "failed"
    /\ UNCHANGED <<totalPageCount, pageIndex, changes, hunk, operations, i, budget,
                   operationsRef, operationsMap, annotationToChangeIndexRef>>
    /\ UNCHANGED <<loadVars, annVars, syncVars, selVars, displayVars, callVars, offsetVars>>

\* an await instance.create(...) of the operation at the cursor rejects: the
\* create of a standalone delete or insert, or the first or the second create
\* of a replacement (the second after the delete highlight was created)
CreateRejects ==
    /\ pc = "walk"
    /\ i < Len(operations)
    /\ IF IsReplacement(operations, i)
       THEN \E second \in BOOLEAN :
               IF second
               THEN /\ annotations' =
                          Create(annotations, "original",
                                 HighlightAnnotation(nextId, pageIndex,
                                                     GeometryRect(operations[i + 1].rect),
                                                     deleteHighlightColor))
                    /\ nextId' = nextId + 1
               ELSE UNCHANGED <<annotations, nextId>>
       ELSE /\ operations[i + 1].type \in {"delete", "insert"}
            /\ UNCHANGED <<annotations, nextId>>
    /\ pc' = "failed"
    /\ UNCHANGED <<totalPageCount, pageIndex, changes, hunk, operations, i, budget,
                   operationsRef, operationsMap, annotationToChangeIndexRef>>
    /\ UNCHANGED <<loadVars, syncVars, selVars, displayVars, callVars, offsetVars>>

InitFail == InitRun

NextFail ==
    \/ NextRun
    \/ LoadRejects
    \/ ComparisonRejects
    \/ CreateRejects

SpecFail == InitFail /\ [][NextFail]_vars

\* C26: once an engine call of the run has rejected, the run takes no further
\* step (no call is repeated, no later operation or page is processed), and
\* the sidebar list and the annotation lookup are as before the run; the
\* failing step removes no highlight and writes no entry.
C26_RejectionStopsRun ==
    /\ [](pc = "failed" =>
             /\ ~ENABLED NextFail
             /\ operationsMap = <<>>
             /\ annotationToChangeIndexRef = <<>>)
    /\ [][pc' = "failed" =>
             /\ \A v \in Views : annotations[v] \subseteq annotations'[v]
             /\ operationsRef' = operationsRef
             /\ changes' = changes
             /\ pageIndex' = pageIndex
             /\ i' = i]_vars

\* C26 witness: the second create of a replacement on page 1 rejected; the
\* delete highlight it had created and the highlight of page 0 remain
C26_Witness ==
    /\ pc = "failed"
    /\ pageIndex = 1
    /\ i < Len(operations)
    /\ IsReplacement(operations, i)
    /\ Len(operationsRef) = 1
    /\ Cardinality(annotations["original"]) = 2
    /\ annotations["changed"] = {}
    /\ changes = <<>>

\* ======================================================================
\* Engine calls of overlapping comparison runs
\* ======================================================================
\* compareDocuments is an async function without any cancellation: each
\* invocation is a run of its own that stops at one await at a time.  The
\* handles `originalInstance` / `changedInstance` are consts of the
\* invocation; the refs are shared by all invocations.

MaxRuns == 2
MaxCreates == 2

Call(n, kind, page, instance, index) ==
    [run |-> n, kind |-> kind, pageIndex |-> page,
     instance |-> instance, index |-> index]

CallsOf(n) == {c \in calls : c.run = n}

\* mutant: the page loop reads the shared refs
InstanceFromRef(n, ref) == ref

\* the const `originalInstance` / `changedInstance` of invocation n
Instance(n, ref) == n

\* mutant: the creations of a page are issued without awaiting each
CreateAllAtOnce(n, page, needed, created, instance) ==
    {Call(n, "create", page, instance, k) : k \in (created + 1)..needed}

\* `await originalInstance.create(...)`: one creation, then the await
CreateCalls(n, page, needed, created, instance) ==
    {Call(n, "create", page, instance, created + 1)}

\* the for statement: the comparison of page `page`, or the end of the run;
\* needed and created keep the counts of the page that was finished
StartPage(n, page, rest, needed, created) ==
    IF page < totalPageCount
    THEN /\ runs' = [runs EXCEPT ![n].stage = "compareDocuments",
                                 ![n].pageIndex = page,
                                 ![n].needed = needed,
                                 ![n].created = created]
         /\ calls' = rest \cup
               {Call(n, "compareDocuments", page, Instance(n, instanceRef), 0)}
    ELSE /\ runs' = [runs EXCEPT ![n].stage = "done",
                                 ![n].pageIndex = page,
                                 ![n].needed = needed,
                                 ![n].created = created]
         /\ calls' = rest

\* compareDocuments(): a new invocation, up to its first await
Invoke ==
    /\ Len(runs) < MaxRuns
    /\ LET n == Len(runs) + 1 IN
          /\ runs' = Append(runs, [stage |-> "loadOriginal", pageIndex |-> 0,
                                   needed |-> 0, created |-> 0])
          /\ calls' = calls \cup {Call(n, "load", 0, n, 0)}
    /\ UNCHANGED <<instanceRef, runVars, annVars, syncVars, selVars, displayVars,
                   offsetVars>>

\* an engine call returns and its run continues to its next await: the
\* run's position, the calls it issues and the instance refs
Continue(c) ==
    /\ c \in calls
    /\ LET n == c.run
           r == runs[n]
           rest == calls \ {c}
       IN
          CASE r.stage = "loadOriginal" ->
                  /\ runs' = [runs EXCEPT ![n].stage = "loadChanged"]
                  /\ calls' = rest \cup {Call(n, "load", 0, n, 0)}
                  /\ UNCHANGED instanceRef
            [] r.stage = "loadChanged" ->
                  /\ instanceRef' = n
                  /\ runs' = [runs EXCEPT ![n].stage = "totalPageCount"]
                  /\ calls' = rest \cup {Call(n, "totalPageCount", 0, n, 0)}
            [] r.stage = "totalPageCount" ->
                  /\ StartPage(n, 0, rest, 0, 0)
                  /\ UNCHANGED instanceRef
            [] r.stage = "compareDocuments" ->
                  /\ \E needed \in 0..MaxCreates :
                        IF needed = 0
                        THEN StartPage(n, r.pageIndex + 1, rest, 0, 0)
                        ELSE /\ runs' = [runs EXCEPT ![n].stage = "create",
                                                     ![n].needed = needed,
                                                     ![n].created = 0]
                             /\ calls' = rest \cup
                                   CreateCalls(n, r.pageIndex, needed, 0,
                                               Instance(n, instanceRef))
                  /\ UNCHANGED instanceRef
            [] r.stage = "create" ->
                  /\ IF c.index < r.needed
                     THEN /\ runs' = [runs EXCEPT ![n].created = c.index]
                          /\ calls' = rest \cup
                                CreateCalls(n, r.pageIndex, r.needed, c.index,
                                            Instance(n, instanceRef))
                     ELSE StartPage(n, r.pageIndex + 1, rest, r.needed, c.index)
                  /\ UNCHANGED instanceRef

\* an engine call returns; what the run stores is left out here
Resolve(c) ==
    /\ Continue(c)
    /\ UNCHANGED <<runVars, annVars, syncVars, selVars, displayVars,
                   offsetVars>>

\* an engine call rejects: the invocation ends there
Reject(c) ==
    /\ c \in calls
    /\ runs' = [runs EXCEPT ![c.run].stage = "failed"]
    /\ calls' = calls \ {c}
    /\ UNCHANGED <<instanceRef, runVars, annVars, syncVars, selVars, displayVars,
                   offsetVars>>

InitCalls == InitRun

NextCalls ==
    \/ Invoke
    \/ \E c \in calls : Resolve(c)
    \/ \E c \in calls : Reject(c)

SpecCalls == InitCalls /\ [][NextCalls]_vars

\* C24: a second invocation of compareDocuments does not cancel the first
\* run: the first run's position and its outstanding call are left as they
\* are, it goes on to issue its remaining comparisons and creations, and
\* every engine call of a run is issued against the instances that run
\* loaded itself, never against the ones a later run stored in the refs.
C24_RunsKeepTheirInstances ==
    /\ [](\A c \in calls : c.instance = c.run)
    /\ [][Len(runs') > Len(runs) =>
             /\ \A n \in 1..Len(runs) : runs'[n] = runs[n]
             /\ calls \subseteq calls']_vars
    /\ [](\A n \in 1..Len(runs) :
             runs[n].stage \notin {"done", "failed"} => CallsOf(n) # {})

C24_Witness ==
    /\ Len(runs) = 2
    /\ instanceRef = 2
    /\ runs[2].stage = "compareDocuments"
    /\ runs[1].stage = "create"
    /\ runs[1].pageIndex = 1
    /\ \E c \in calls :
          c.run = 1 /\ c.kind = "create" /\ c.instance = 1 /\ c.index = 2

\* C25: within one run the pages are processed one at a time in ascending
\* order: a run never has two engine calls outstanding, and the comparison
\* of page p+1 is requested only at the return of the run's single
\* outstanding call of page p, which is the comparison of p when the page
\* needs no highlight, and the last of its creations otherwise.
C25_OnePageAtATime ==
    /\ [](\A n \in 1..Len(runs) : Cardinality(CallsOf(n)) <= 1)
    /\ [][\A c \in calls' \ calls :
             (c.kind = "compareDocuments" /\ c.pageIndex > 0) =>
                \E d \in calls \ calls' :
                   /\ CallsOf(c.run) = {d}
                   /\ d.pageIndex = c.pageIndex - 1
                   /\ d.kind \in {"compareDocuments", "create"}
                   /\ d.kind = "create" => d.index = runs[c.run].needed]_vars

C25_Witness ==
    /\ Len(runs) = 1
    /\ runs[1].stage = "compareDocuments"
    /\ runs[1].pageIndex = 1
    /\ runs[1].needed = 2
    /\ runs[1].created = 2
    /\ calls = {Call(1, "compareDocuments", 1, 1, 0)}

\* ======================================================================
\* SpecOffset: the scroll offset computed by scrollToPage
\* ======================================================================
\* scrollToPage(instance, targetPageIndex, offsetTop) awaits the page info of
\* one page at a time and reads instance.viewState.zoom anew for each page.
\* The zoom is a number or the name of a zoom mode.

MaxDocPages == 3
Heights == {100, 150}
Zooms == {<<"number", 1>>, <<"number", 2>>, <<"mode", 0>>}
OffsetTops == {0, 25}

\* mutant: a zoom mode counts as 0
ZoomValueZeroForMode(z) == IF z[1] = "number" THEN z[2] ELSE 0

\* const zoomValue = typeof zoom === "number" ? zoom : 1
ZoomValue(z) == IF z[1] = "number" THEN z[2] ELSE 1

\* instance.pageInfoForIndex(i): null (0) when the document has no page i
pageInfoForIndex(index) ==
    IF index + 1 \in 1..Len(pageHeights) THEN pageHeights[index + 1] ELSE 0

\* scrollToPage(instance, targetPageIndex, offsetTop) up to its first await;
\* the scroll container is present
ScrollToPageStart(targetPageIndex, offsetTop) ==
    /\ ~scrollCall.running
    /\ scrollCall' = [NoScrollCall EXCEPT !.running = TRUE,
                                          !.targetPageIndex = targetPageIndex,
                                          !.offsetTop = offsetTop]
    /\ UNCHANGED <<pageHeights, instanceZoom>>
    /\ UNCHANGED <<runVars, annVars, syncVars, selVars, displayVars, callVars>>

\* one turn of the for loop: the page info of page i has arrived
AddPage ==
    /\ scrollCall.running
    /\ scrollCall.i < scrollCall.targetPageIndex
    /\ LET pageInfo == pageInfoForIndex(scrollCall.i) IN
          scrollCall' =
             IF pageInfo = 0
             THEN [scrollCall EXCEPT !.i = @ + 1]
             ELSE [scrollCall EXCEPT
                      !.i = @ + 1,
                      !.cumulativeHeight =
                          @ + pageInfo * ZoomValue(instanceZoom) + PageGap,
                      !.zooms = Append(@, instanceZoom)]
    /\ UNCHANGED <<pageHeights, instanceZoom>>
    /\ UNCHANGED <<runVars, annVars, syncVars, selVars, displayVars, callVars>>

\* after the loop: cumulativeHeight += offsetTop; scrollContainer.scrollTo;
\* instance.setViewState(viewState.set("currentPageIndex", targetPageIndex))
ScrollTo ==
    /\ scrollCall.running
    /\ scrollCall.i >= scrollCall.targetPageIndex
    /\ scrollCall' = [scrollCall EXCEPT
                         !.running = FALSE,
                         !.cumulativeHeight = @ + scrollCall.offsetTop,
                         !.top = scrollCall.cumulativeHeight + scrollCall.offsetTop,
                         !.currentPageIndex = scrollCall.targetPageIndex]
    /\ UNCHANGED <<pageHeights, instanceZoom>>
    /\ UNCHANGED <<runVars, annVars, syncVars, selVars, displayVars, callVars>>

\* the user, or a sync pass, changes the zoom of the view
ZoomChanges(z) ==
    /\ z # instanceZoom
    /\ instanceZoom' = z
    /\ UNCHANGED <<pageHeights, scrollCall>>
    /\ UNCHANGED <<runVars, annVars, syncVars, selVars, displayVars, callVars>>

InitOffset ==
    /\ RunInit /\ LoadInit /\ AnnInit /\ SyncInit /\ SelInit /\ DisplayInit
    /\ CallInit
    /\ pageHeights \in [1..MaxDocPages -> Heights]
    /\ instanceZoom \in Zooms
    /\ scrollCall = NoScrollCall

NextOffset ==
    \/ \E targetPageIndex \in 0..(MaxDocPages - 1), offsetTop \in OffsetTops :
          ScrollToPageStart(targetPageIndex, offsetTop)
    \/ AddPage
    \/ ScrollTo
    \/ \E z \in Zooms : ZoomChanges(z)

SpecOffset == InitOffset /\ [][NextOffset]_vars

\* the sum over the pages k..p-1 of height * zoom + 10, where zooms[k + 1] is
\* the zoom that was current when page k was added and a zoom mode counts as 1
RECURSIVE SumOfPages(_, _, _)
SumOfPages(k, p, zooms) ==
    IF k >= p THEN 0
    ELSE pageHeights[k + 1]
            * (IF zooms[k + 1][1] = "number" THEN zooms[k + 1][2] ELSE 1)
         + 10 + SumOfPages(k + 1, p, zooms)

\* C27: with the scroll container present scrollToPage(view, p, offset)
\* requests the scroll offset that is the sum over the pages i < p of
\* (height of page i times the current zoom, plus 10) plus offset, a zoom
\* mode counting as 1, and then sets the page index to p.  The current zoom
\* is the one of the view when the page is added; when the zoom stays as it
\* is during the call this is one zoom for all pages.
C27_ScrollOffset ==
    /\ [][ScrollTo =>
             /\ scrollCall'.top =
                   SumOfPages(0, scrollCall.targetPageIndex, scrollCall.zooms)
                   + scrollCall.offsetTop
             /\ scrollCall'.currentPageIndex = scrollCall.targetPageIndex
             /\ Len(scrollCall.zooms) = scrollCall.targetPageIndex]_vars
    /\ [][(ScrollTo /\ \A k \in 1..Len(scrollCall.zooms) :
                          scrollCall.zooms[k] = instanceZoom) =>
             scrollCall'.top =
                SumOfPages(0, scrollCall.targetPageIndex,
                           [k \in 1..scrollCall.targetPageIndex |-> instanceZoom])
                + scrollCall.offsetTop]_vars

\* C27 witness: two pages of different heights before the target page, a
\* zoom mode instead of a number, and an offset within the page
C27_Witness ==
    /\ ~scrollCall.running
    /\ scrollCall.currentPageIndex = 2
    /\ scrollCall.offsetTop = 25
    /\ scrollCall.zooms = <<<<"mode", 0>>, <<"mode", 0>>>>
    /\ pageHeights[1] = 100
    /\ pageHeights[2] = 150
    /\ scrollCall.top = 100 + 10 + 150 + 10 + 25

\* ======================================================================
\* SpecSettle: one user event at a time
\* ======================================================================
\* The user acts (scrolls, changes the page or the zoom, toggles the lock)
\* only when nothing is pending, so every user event is a single one; the
\* browser dispatches a queued scroll event and runs a requested frame
\* callback eventually.

\* a step of the browser: a queued scroll event or a frame callback
BrowserStep ==
    \/ \E v \in Views : DispatchScroll(v)
    \/ RunFrame

\* a step of the user, taken when nothing is pending
SingleUserEvent ==
    /\ Quiescent
    /\ \/ ToggleScrollLock
       \/ \E v \in Views : UserScroll(v)
       \/ \E v \in Views : UserZoom(v)
       \/ \E v \in Views : UserPage(v)

InitSettle == InitSync

NextSettle == SingleUserEvent \/ BrowserStep

SpecSettle == InitSettle /\ [][NextSettle]_vars /\ WF_vars(BrowserStep)

\* C30: after a single user event the events raised by the sync passes do
\* not keep the two views writing to each other for ever: a state with no
\* pending frame callback and no pending scroll event is reached again, so
\* the passes started for the event are finitely many.
C30_SyncSettles == []<>Quiescent

\* C30 witness: with the lock on nothing is pending after a frame callback
\* whose pass assigned the scroll offsets the target already had: the pass
\* that handled the scroll event raised by an earlier pass's write
C30_Witness ==
    /\ Quiescent
    /\ isScrollLockedRef
    /\ obs.passes = 1
    /\ ~obs.threw
    /\ obs.writes = <<Written("changed", "scrollTop"),
                      Written("changed", "scrollLeft")>>
    /\ view["changed"].scrollTop = 1
    /\ ViewsEqual

\* ======================================================================
\* SpecOverlap: what overlapping runs store
\* ======================================================================
\* The runs of SpecCalls together with what they write: the highlights they
\* create in their own instances, the merge of a finished page into
\* operationsRef.current (shared by all runs and never reset) and the
\* publication at the end of a run.  Both runs compare the same two
\* documents: every page has one replacement, that is one entry with a
\* deletion highlight in the original view and an insertion highlight in
\* the changed view, under the same key in every run.

\* the identifier the engine gives the k-th highlight run n creates on page
\* page: identifiers are never shared by two annotations
HighlightId(n, page, k) == n * 100 + page * 10 + k

\* the entry of the replacement on page page as run n writes it
PageEntry(n, page) ==
    [del |-> TRUE, insert |-> TRUE, pageIndex |-> page,
     annotationIds |-> <<HighlightId(n, page, 1), HighlightId(n, page, 2)>>]

\* an engine call of a run returns: the run continues and stores its results
ResolveAndStore(c) ==
    /\ Continue(c)
    /\ LET n == c.run
           before == runs[n]
           after == runs'[n]
           pageDone == /\ before.stage \in {"compareDocuments", "create"}
                       /\ after.stage \in {"compareDocuments", "done"}
           merged == IF pageDone
                     THEN MapSet(operationsRef, ToString(before.pageIndex),
                                 PageEntry(n, before.pageIndex))
                     ELSE operationsRef
       IN  /\ before.stage = "compareDocuments" => after.needed = 2
           /\ annotations' =
                 IF c.kind = "create"
                 THEN Create(annotations,
                             IF c.index = 1 THEN "original" ELSE "changed",
                             [id |-> HighlightId(n, c.pageIndex, c.index),
                              kind |-> "highlight", pageIndex |-> c.pageIndex,
                              instance |-> c.instance])
                 ELSE annotations
           /\ operationsRef' = merged
           /\ IF after.stage = "done"
              THEN /\ operationsMap' = merged
                   /\ annotationToChangeIndexRef' =
                         MapSetAll(<<>>, AnnotationMap(merged, 0))
              ELSE UNCHANGED <<operationsMap, annotationToChangeIndexRef>>
    /\ UNCHANGED <<pc, totalPageCount, pageIndex, changes, hunk, operations, i,
                   budget, loadVars, nextId>>
    /\ UNCHANGED <<syncVars, selVars, displayVars, offsetVars>>

InitOverlap == InitRun

NextOverlap ==
    \/ Invoke
    \/ \E c \in calls : ResolveAndStore(c)

SpecOverlap == InitOverlap /\ [][NextOverlap]_vars

\* the identifiers of the annotations held by the instances the refs name
ReferencedIds == {a.id : a \in {b \in AllAnnotations : b.instance = instanceRef}}

\* C31: when two overlapping runs have both finished, every annotation
\* identifier in the change list and in the annotation lookup is the
\* identifier of an annotation of the instances that originalInstanceRef and
\* changedInstanceRef name (the two refs are stored together by one run).
C31_IdsOfReferencedInstances ==
    (Len(runs) = 2 /\ \A n \in 1..Len(runs) : runs[n].stage = "done") =>
        /\ \A k \in 1..Len(operationsMap) :
              SeqRange(AnnotationIdsOf(operationsMap[k].value)) \subseteq ReferencedIds
        /\ \A k \in 1..Len(operationsRef) :
              SeqRange(AnnotationIdsOf(operationsRef[k].value)) \subseteq ReferencedIds
        /\ MapKeys(annotationToChangeIndexRef) \subseteq ReferencedIds

====
